---- MODULE Spec2Model ----
(***************************************************************************)
(* Carrier portal sync of sheep-shure: the reconciliation engine of        *)
(* src-tauri/src/services/carrier_sync_service.rs over the enrollments,    *)
(* clients and carrier_sync_logs tables.                                   *)
(*                                                                         *)
(* Conventions.  A Rust String is a sequence of one-character strings.     *)
(* Option<T> / a nullable column is a sequence of length 0 (None, NULL)    *)
(* or 1 (Some(x)).  The clock `now` counts half days: datetime('now') is   *)
(* the tick itself and date('now') is the day the tick falls in.           *)
(***************************************************************************)
EXTENDS Integers, Sequences, FiniteSets, TLC

VARIABLES
    clients,        \* clients table: id -> [first_name, last_name, mbi, is_active]
    enrollments,    \* enrollments table: id -> row
    sync_logs,      \* carrier_sync_logs table, in insertion order
    now,            \* the clock read by date('now') / datetime('now')
    scan,           \* the order in which SQLite walks the enrollment rows
    runs,           \* number of run_sync calls made so far
    lastRun,        \* the last run_sync call: its inputs, what it loaded and what it returned
    probe,          \* one call of find_match: its arguments and its return value
    db_state,       \* DbState: the connection slot, who holds its mutex, the account on disk
    calls,          \* the command each caller of the application is executing
    app,            \* the application handle: its windows, the events emitted, the last webview call
    db_file         \* the database file sheeps.db: its user_version, the migrations applied, the seed

vars == <<clients, enrollments, sync_logs, now, scan, runs, lastRun, probe,
          db_state, calls, app, db_file>>

\* Longest portal member list handed to run_sync.
MaxPortal == 2

\* Longest list of local enrollments handed to find_match on its own.
MaxLocals == 2

----------------------------------------------------------------------------
(* Values *)

NoneV == <<>>
Some(x) == <<x>>
IsSome(o) == Len(o) = 1
Unwrap(o) == o[1]

ClientIds == {"c1", "c2"}
EnrollmentIds == {"e1", "e2"}
Carriers == {"carrier-uhc", "carrier-humana"}

carrier_name(carrier_id) ==
    IF carrier_id = "carrier-uhc" THEN "UnitedHealthcare" ELSE "Humana"

\* Status codes a row can hold when a run starts.
StatusCodes == {"ACTIVE", "PENDING", "REINSTATED", "CANCELLED", "DISENROLLED"}

SyncDisenrollReason == "Carrier portal sync - not found in portal"

\* Names and identifiers as the local store holds them ...
LocalFirstNames == {<<"j">>, <<"k">>}
LocalLastNames == {<<"d">>}
LocalMbis == {NoneV, Some(<<"a">>)}
\* ... and as a portal reports them (other letter case, other spelling).
PortalFirstNames == {<<"J">>, <<"k">>}
PortalLastNames == {<<"d">>}
PortalMemberIds == {NoneV, Some(<<"A">>)}

\* A portal record that carries no identifier and no name.
BlankMember == [first_name |-> <<>>, last_name |-> <<>>, member_id |-> NoneV]

PortalMembers ==
    [first_name : PortalFirstNames, last_name : PortalLastNames,
     member_id : PortalMemberIds]

RECURSIVE SeqsUpTo(_, _)
SeqsUpTo(S, n) ==
    IF n = 0 THEN {<<>>}
    ELSE LET shorter == SeqsUpTo(S, n - 1)
         IN  shorter \cup {Append(s, x) : s \in {t \in shorter : Len(t) = n - 1}, x \in S}

\* The rosters: any members, or the blank record followed by any members.
PortalLists ==
    SeqsUpTo(PortalMembers, MaxPortal)
        \cup {<<BlankMember>> \o s : s \in SeqsUpTo(PortalMembers, MaxPortal - 1)}

\* All orders in which a query can return the rows of a set.
RECURSIVE Orders(_)
Orders(S) ==
    IF S = {} THEN {<<>>}
    ELSE UNION {{<<x>> \o rest : rest \in Orders(S \ {x})} : x \in S}

Range(s) == {s[i] : i \in 1..Len(s)}

Min(S) == CHOOSE x \in S : \A y \in S : x <= y

----------------------------------------------------------------------------
(* Strings and time *)

to_ascii_lowercase(ch) ==
    CASE ch = "A" -> "a"
      [] ch = "D" -> "d"
      [] ch = "E" -> "e"
      [] ch = "J" -> "j"
      [] ch = "K" -> "k"
      [] OTHER -> ch

eq_ignore_ascii_case(s, t) ==
    /\ Len(s) = Len(t)
    /\ \A i \in 1..Len(s) : to_ascii_lowercase(s[i]) = to_ascii_lowercase(t[i])

\* SQLite date('now'): the calendar day of a clock tick (two ticks a day).
date(t) == t \div 2

\* SQLite datetime('now').
datetime(t) == t

----------------------------------------------------------------------------
(* The store *)

\* LocalIds without the status_code IN ('ACTIVE', 'PENDING') condition.
LocalIds_any_status(cl, enr, carrier_id) ==
    {e \in DOMAIN enr :
        /\ enr[e].client_id \in DOMAIN cl
        /\ enr[e].carrier_id = carrier_id
        /\ enr[e].is_active = 1
        /\ cl[enr[e].client_id].is_active = 1}

\* LocalIds without the c.is_active = 1 condition.
LocalIds_any_client(cl, enr, carrier_id) ==
    {e \in DOMAIN enr :
        /\ enr[e].client_id \in DOMAIN cl
        /\ enr[e].carrier_id = carrier_id
        /\ enr[e].status_code \in {"ACTIVE", "PENDING"}
        /\ enr[e].is_active = 1}

\* SELECT ... FROM enrollments e JOIN clients c ON e.client_id = c.id WHERE ...:
\* the ids of the rows the query of get_local_enrollments selects.
LocalIds(cl, enr, carrier_id) ==
    {e \in DOMAIN enr :
        /\ enr[e].client_id \in DOMAIN cl
        /\ enr[e].carrier_id = carrier_id
        /\ enr[e].status_code \in {"ACTIVE", "PENDING"}
        /\ enr[e].is_active = 1
        /\ cl[enr[e].client_id].is_active = 1}

\* One row of the join, as the LocalEnrollment struct.
LocalEnrollment(cl, enr, e) ==
    [enrollment_id |-> e,
     client_id |-> enr[e].client_id,
     client_first_name |-> cl[enr[e].client_id].first_name,
     client_last_name |-> cl[enr[e].client_id].last_name,
     client_mbi |-> cl[enr[e].client_id].mbi,
     plan_name |-> enr[e].plan_name]

\* get_local_enrollments without the e.carrier_id = ?1 condition.
get_local_enrollments_any_carrier(cl, enr, carrier_id, walk) ==
    LET order == SelectSeq(walk, LAMBDA e : \E k \in Carriers : e \in LocalIds(cl, enr, k))
    IN  [i \in 1..Len(order) |-> LocalEnrollment(cl, enr, order[i])]

\* get_local_enrollments: the selected rows, in the order the query returns
\* them.  The statement has no ORDER BY: SQLite returns the rows in the order
\* `walk` in which its plan walks the table, and the rows that the WHERE
\* clause drops leave the order of the others as it is.
get_local_enrollments(cl, enr, carrier_id, walk) ==
    LET order == SelectSeq(walk, LAMBDA e : e \in LocalIds(cl, enr, carrier_id))
    IN  [i \in 1..Len(order) |-> LocalEnrollment(cl, enr, order[i])]

MbiMatches(le, portal) ==
    /\ IsSome(le.client_mbi)
    /\ eq_ignore_ascii_case(Unwrap(le.client_mbi), Unwrap(portal.member_id))

\* The name test on the last name alone.
NameMatches_last_only(le, portal) ==
    eq_ignore_ascii_case(le.client_last_name, portal.last_name)

NameMatches(le, portal) ==
    /\ eq_ignore_ascii_case(le.client_last_name, portal.last_name)
    /\ eq_ignore_ascii_case(le.client_first_name, portal.first_name)

\* find_match trying the names before the identifier.
find_match_name_first(locals, portal) ==
    LET mbi_hits == IF IsSome(portal.member_id)
                    THEN {i \in 1..Len(locals) : MbiMatches(locals[i], portal)}
                    ELSE {}
        name_hits == {i \in 1..Len(locals) : NameMatches(locals[i], portal)}
    IN  IF name_hits # {} THEN Some(locals[Min(name_hits)])
        ELSE IF mbi_hits # {} THEN Some(locals[Min(mbi_hits)])
        ELSE NoneV

\* find_match comparing the identifier with == instead of eq_ignore_ascii_case.
find_match_case_sensitive(locals, portal) ==
    LET mbi_hits == IF IsSome(portal.member_id)
                    THEN {i \in 1..Len(locals) : locals[i].client_mbi = portal.member_id}
                    ELSE {}
        name_hits == {i \in 1..Len(locals) : NameMatches(locals[i], portal)}
    IN  IF mbi_hits # {} THEN Some(locals[Min(mbi_hits)])
        ELSE IF name_hits # {} THEN Some(locals[Min(name_hits)])
        ELSE NoneV

\* find_match: Option<&LocalEnrollment>.  Iterator::find returns the first
\* element of locals that satisfies the predicate.
find_match(locals, portal) ==
    LET mbi_hits == IF IsSome(portal.member_id)
                    THEN {i \in 1..Len(locals) : MbiMatches(locals[i], portal)}
                    ELSE {}
        name_hits == {i \in 1..Len(locals) : NameMatches(locals[i], portal)}
    IN  IF mbi_hits # {} THEN Some(locals[Min(mbi_hits)])
        ELSE IF name_hits # {} THEN Some(locals[Min(name_hits)])
        ELSE NoneV

\* disenroll_enrollment without its WHERE clause: every row is updated.
disenroll_enrollment_all_rows(enr, enrollment_id, t) ==
    [e \in DOMAIN enr |->
        [enr[e] EXCEPT !.status_code = "DISENROLLED",
                       !.disenrollment_reason = Some(SyncDisenrollReason),
                       !.termination_date = Some(date(t)),
                       !.updated_at = datetime(t)]]

\* disenroll_enrollment writing datetime('now') as termination date.
disenroll_enrollment_datetime(enr, enrollment_id, t) ==
    [e \in DOMAIN enr |->
        IF e = enrollment_id
        THEN [enr[e] EXCEPT !.status_code = "DISENROLLED",
                            !.disenrollment_reason = Some(SyncDisenrollReason),
                            !.termination_date = Some(datetime(t)),
                            !.updated_at = datetime(t)]
        ELSE enr[e]]

\* disenroll_enrollment: UPDATE enrollments SET ... WHERE id = ?1, run at time t.
disenroll_enrollment(enr, enrollment_id, t) ==
    [e \in DOMAIN enr |->
        IF e = enrollment_id
        THEN [enr[e] EXCEPT !.status_code = "DISENROLLED",
                            !.disenrollment_reason = Some(SyncDisenrollReason),
                            !.termination_date = Some(date(t)),
                            !.updated_at = datetime(t)]
        ELSE enr[e]]

\* log_sync binding matched and new_found to each other's column.
log_sync_swapped(logs, carrier_id, portal_count, matched, disenrolled, new_found) ==
    Append(logs, [id |-> Len(logs) + 1,
                  carrier_id |-> carrier_id,
                  portal_count |-> portal_count,
                  matched |-> new_found,
                  disenrolled |-> disenrolled,
                  new_found |-> matched])

\* log_sync as INSERT OR REPLACE keyed by the carrier: the row of an earlier
\* run for the same carrier is replaced.
log_sync_replace(logs, carrier_id, portal_count, matched, disenrolled, new_found) ==
    Append(SelectSeq(logs, LAMBDA sl : sl.carrier_id # carrier_id),
           [id |-> Len(logs) + 1,
            carrier_id |-> carrier_id,
            portal_count |-> portal_count,
            matched |-> matched,
            disenrolled |-> disenrolled,
            new_found |-> new_found])

\* log_sync: INSERT INTO carrier_sync_logs (id, carrier_id, portal_count,
\* matched, disenrolled, new_found).  The id is a fresh UUID.
log_sync(logs, carrier_id, portal_count, matched, disenrolled, new_found) ==
    Append(logs, [id |-> Len(logs) + 1,
                  carrier_id |-> carrier_id,
                  portal_count |-> portal_count,
                  matched |-> matched,
                  disenrolled |-> disenrolled,
                  new_found |-> new_found])

\* The summary with the client_name built as "last first".
SyncDisenrollment_last_first(le) ==
    [client_name |-> le.client_last_name \o <<" ">> \o le.client_first_name,
     client_id |-> le.client_id,
     enrollment_id |-> le.enrollment_id,
     plan_name |-> le.plan_name]

SyncDisenrollment(le) ==
    [client_name |-> le.client_first_name \o <<" ">> \o le.client_last_name,
     client_id |-> le.client_id,
     enrollment_id |-> le.enrollment_id,
     plan_name |-> le.plan_name]

\* The loop of step 2 stopping after the first portal member.
MatchedEnrollmentIds_first_member(local, portal_members) ==
    IF portal_members = <<>> \/ ~IsSome(find_match(local, Head(portal_members)))
    THEN <<>>
    ELSE <<Unwrap(find_match(local, Head(portal_members))).enrollment_id>>

\* Step 2 of run_sync: the ids pushed to matched_enrollment_ids, one per
\* portal member that find_match matched, in input order.
MatchedEnrollmentIds(local, portal_members) ==
    LET hits == SelectSeq(portal_members, LAMBDA pm : IsSome(find_match(local, pm)))
    IN  [i \in 1..Len(hits) |-> Unwrap(find_match(local, hits[i])).enrollment_id]

RECURSIVE Dedup(_)
Dedup(q) ==
    IF q = <<>> THEN <<>>
    ELSE LET front == Dedup(SubSeq(q, 1, Len(q) - 1))
         IN  IF q[Len(q)] \in Range(front) THEN front ELSE Append(front, q[Len(q)])

\* new_in_portal skipping a member it already holds.
NewInPortal_dedup(local, portal_members) ==
    Dedup(SelectSeq(portal_members, LAMBDA pm : ~IsSome(find_match(local, pm))))

\* Step 2 of run_sync: the members pushed to new_in_portal.
NewInPortal(local, portal_members) ==
    SelectSeq(portal_members, LAMBDA pm : ~IsSome(find_match(local, pm)))

\* Step 3 without the contains() test: every local is disenrolled.
Unmatched_all(local, matched_enrollment_ids) == local

\* Step 3 of run_sync: the locals the loop disenrolls, in the order of local.
Unmatched(local, matched_enrollment_ids) ==
    SelectSeq(local, LAMBDA le : le.enrollment_id \notin Range(matched_enrollment_ids))

\* The store operations of one run are numbered 1 (the query of
\* get_local_enrollments), 2 .. n+1 (the n UPDATEs of step 3) and n+2 (the
\* INSERT of log_sync).
StoreOps(cl, enr, carrier_id, portal_members, walk) ==
    LET local == get_local_enrollments(cl, enr, carrier_id, walk)
    IN  Len(Unmatched(local, MatchedEnrollmentIds(local, portal_members))) + 2

\* Step 3 inside a transaction that is never committed: no UPDATE stays.
DisenrollAll_none(enr, les, t) == enr

RECURSIVE DisenrollAll(_, _, _)
DisenrollAll(enr, les, t) ==
    IF les = <<>> THEN enr
    ELSE DisenrollAll(disenroll_enrollment(enr, Head(les).enrollment_id, t), Tail(les), t)

\* run_sync at time t.  fail_at is the number of the store operation that
\* returns an error (0: none does); `?` returns the error at that point.
\* The value is the store after the call, the rows loaded and the return value.
run_sync(cl, enr, logs, carrier_id, cname, portal_members, walk, fail_at, t) ==
    LET local == IF fail_at = 1 THEN <<>>
                 ELSE get_local_enrollments(cl, enr, carrier_id, walk)
        local_count == Len(local)
        portal_count == Len(portal_members)
        matched_enrollment_ids == MatchedEnrollmentIds(local, portal_members)
        new_in_portal == NewInPortal(local, portal_members)
        unmatched == Unmatched(local, matched_enrollment_ids)
        n == Len(unmatched)
        \* the UPDATEs that ran before the failing operation, if any
        done == IF fail_at = 1 THEN 0
                ELSE IF fail_at \in 2..(n + 1) THEN fail_at - 2
                ELSE n
        disenrolled == [i \in 1..done |-> SyncDisenrollment(unmatched[i])]
        matched == Len(matched_enrollment_ids)
        ok == fail_at = 0
    IN  [enrollments |-> DisenrollAll(enr, SubSeq(unmatched, 1, done), t),
         sync_logs |-> IF ok
                       THEN log_sync(logs, carrier_id, portal_count, matched,
                                     Len(disenrolled), Len(new_in_portal))
                       ELSE logs,
         local |-> local,
         matched_enrollment_ids |-> matched_enrollment_ids,
         ret |-> IF ok
                 THEN Some([carrier_name |-> cname,
                            portal_count |-> portal_count,
                            local_count |-> local_count,
                            matched |-> matched,
                            disenrolled |-> disenrolled,
                            new_in_portal |-> new_in_portal])
                 ELSE NoneV]

----------------------------------------------------------------------------
(* The state machine *)

\* What an earlier sync left on a row it disenrolled; other rows were never
\* terminated.
InitRow(client_id, carrier_id, status_code, is_active, plan_name) ==
    [client_id |-> client_id,
     carrier_id |-> carrier_id,
     status_code |-> status_code,
     is_active |-> is_active,
     disenrollment_reason |-> IF status_code = "DISENROLLED"
                              THEN Some(SyncDisenrollReason) ELSE NoneV,
     termination_date |-> IF status_code = "DISENROLLED" THEN Some(0) ELSE NoneV,
     updated_at |-> 0,
     plan_name |-> plan_name,
     plan_type_code |-> NoneV]

NoRun ==
    [carrier_id |-> "", portal_members |-> <<>>, fail_at |-> 0, at |-> 0,
     before |-> <<>>, logs_before |-> <<>>, local |-> <<>>,
     matched_enrollment_ids |-> <<>>, ret |-> NoneV]

\* MIGRATIONS: the versions, in the order of the array.
MIGRATIONS == <<1, 2, 3, 4>>

\* sheeps.db of an account in use: every migration applied, reference data
\* seeded.  applied holds the migrations whose batch ran to its end, partial
\* the migration whose batch stopped at a failing statement.
Migrated ==
    Some([user_version |-> MIGRATIONS[Len(MIGRATIONS)], applied |-> Range(MIGRATIONS),
          partial |-> NoneV, seeded |-> TRUE])

\* The application before any carrier window was opened: only the main window
\* exists, no event was emitted and no webview command has returned.
NoApp ==
    [windows |-> [label \in {"main"} |-> [url |-> "tauri://localhost", carrier_id |-> NoneV]],
     last |-> [cmd |-> "", ret |-> NoneV, evaluated |-> NoneV,
               allowed |-> NoneV, emitted |-> <<>>]]

NoProbe == [locals |-> <<>>, portal |-> <<>>, called |-> FALSE, result |-> NoneV]

\* DbState after a login: the slot holds the connection, the mutex is free
\* and the salt file of the account exists.
LoggedIn == [conn |-> Some("sheeps.db"), guard |-> NoneV, salt |-> TRUE]

\* A client created with its name fields and its MBI left empty:
\* create_client checks no name, and validate_mbi accepts the empty string.
BlankClient == [first_name |-> <<>>, last_name |-> <<>>, mbi |-> Some(<<>>), is_active |-> 1]

\* The store a sync can meet.  Enrollment e1 is an active uhc enrollment of
\* client c1, who has an MBI; e2 is any enrollment: of either client and either
\* carrier, in any status, active or not.  Client c2 has either name, an MBI or
\* none, and may have been soft-deleted; or its names and MBI are empty.
\* SQLite walks the rows in either order.
Init ==
    /\ probe = NoProbe
    /\ db_state = LoggedIn
    /\ calls = <<>>
    /\ clients \in
          {[c \in ClientIds |-> IF c = "c1" THEN r1 ELSE r2] :
              r1 \in [first_name : {<<"j">>}, last_name : LocalLastNames,
                      mbi : {Some(<<"a">>)}, is_active : {1}],
              r2 \in [first_name : LocalFirstNames, last_name : LocalLastNames,
                      mbi : LocalMbis, is_active : {1}]
                      \cup [first_name : {<<"j">>}, last_name : LocalLastNames,
                            mbi : {Some(<<"a">>)}, is_active : {0}]
                      \cup {BlankClient}}
    /\ enrollments \in
          {[e \in EnrollmentIds |->
               IF e = "e1"
               THEN InitRow("c1", "carrier-uhc", "ACTIVE", 1, Some("hmo"))
               ELSE InitRow(c2, k2, p2[1], p2[2], NoneV)] :
              c2 \in ClientIds, k2 \in Carriers,
              p2 \in (StatusCodes \X {1}) \cup {<<"ACTIVE", 0>>}}
    /\ sync_logs = <<>>
    /\ now = 1
    /\ scan \in Orders(EnrollmentIds)
    /\ runs = 0
    /\ lastRun = NoRun
    /\ app = NoApp
    /\ db_file = Migrated

\* One call of run_sync(conn, carrier_id, carrier_name, portal_members).
\* lastRun keeps the call's inputs, the store as it was before the call, the
\* locals of the call (local, matched_enrollment_ids) and the return value.
Sync(carrier_id, portal_members, fail_at) ==
    LET out == run_sync(clients, enrollments, sync_logs, carrier_id,
                        carrier_name(carrier_id), portal_members, scan, fail_at, now)
    IN  /\ enrollments' = out.enrollments
        /\ sync_logs' = out.sync_logs
        /\ lastRun' = [carrier_id |-> carrier_id, portal_members |-> portal_members,
                       fail_at |-> fail_at, at |-> now,
                       before |-> enrollments, logs_before |-> sync_logs,
                       local |-> out.local,
                       matched_enrollment_ids |-> out.matched_enrollment_ids,
                       ret |-> out.ret]
        /\ runs' = runs + 1
        /\ now' = now + 1
        /\ UNCHANGED <<clients, scan, probe, db_state, calls, app, db_file>>

\* A sync for any carrier with any portal roster, against any store.
RunSync ==
    /\ runs = 0
    /\ \E carrier_id \in Carriers, portal_members \in PortalLists :
         \E fail_at \in 0..StoreOps(clients, enrollments, carrier_id, portal_members, scan) :
            Sync(carrier_id, portal_members, fail_at)

\* The same sync again: same carrier, same portal roster, nothing in between.
RunSyncAgain ==
    /\ runs = 1
    /\ \E fail_at \in 0..StoreOps(clients, enrollments, lastRun.carrier_id,
                                  lastRun.portal_members, scan) :
          Sync(lastRun.carrier_id, lastRun.portal_members, fail_at)

Next == RunSync \/ RunSyncAgain

Spec == Init /\ [][Next]_vars

----------------------------------------------------------------------------
(* find_match on its own: any list of locals, any portal member *)

\* Names and identifiers of either side: present in either letter case,
\* or the empty string, or (the identifier) absent.
ProbeLocals ==
    [client_first_name : {<<"j">>, <<"k">>, <<>>},
     client_last_name : {<<"d">>, <<"e">>, <<>>},
     client_mbi : {NoneV, Some(<<"a">>), Some(<<>>)}]

ProbePortals ==
    [first_name : {<<"J">>, <<"k">>, <<>>},
     last_name : {<<"d">>, <<"E">>, <<>>},
     member_id : {NoneV, Some(<<"A">>), Some(<<>>)}]

\* The i-th row of a loaded list: enrollment ids are unique.
ProbeRow(r, i) ==
    [enrollment_id |-> i,
     client_id |-> i,
     client_first_name |-> r.client_first_name,
     client_last_name |-> r.client_last_name,
     client_mbi |-> r.client_mbi,
     plan_name |-> NoneV]

InitMatch ==
    /\ db_state = LoggedIn
    /\ calls = <<>>
    /\ clients = <<>>
    /\ enrollments = <<>>
    /\ sync_logs = <<>>
    /\ now = 0
    /\ scan = <<>>
    /\ runs = 0
    /\ lastRun = NoRun
    /\ app = NoApp
    /\ db_file = Migrated
    /\ \E rows \in SeqsUpTo(ProbeLocals, MaxLocals), pm \in ProbePortals :
          probe = [locals |-> [i \in 1..Len(rows) |-> ProbeRow(rows[i], i)],
                   portal |-> pm, called |-> FALSE, result |-> NoneV]

Match ==
    /\ ~probe.called
    /\ probe' = [probe EXCEPT !.called = TRUE,
                              !.result = find_match(probe.locals, probe.portal)]
    /\ UNCHANGED <<clients, enrollments, sync_logs, now, scan, runs, lastRun,
                   db_state, calls, app, db_file>>

NextMatch == Match

SpecMatch == InitMatch /\ [][NextMatch]_vars

----------------------------------------------------------------------------
(* The application: commands that callers run against the one DbState *)

\* The threads on which the application runs its commands.
Callers == {"ui1", "ui2"}

\* Most rows of carrier_sync_logs the commands below write.
MaxLogs == 2

\* A registry that knows a portal for every carrier id.
get_portal_every_carrier(carrier_id) == Some("Portal")

\* carrier_sync::get_portal: the display name of the portal of a carrier
\* that has one.
get_portal(carrier_id) ==
    CASE carrier_id = "carrier-devoted" -> Some("Devoted Health")
      [] carrier_id = "carrier-caresource" -> Some("CareSource")
      [] carrier_id = "carrier-medmutual" -> Some("Medical Mutual of Ohio")
      [] carrier_id = "carrier-uhc" -> Some("UnitedHealthcare")
      [] carrier_id = "carrier-humana" -> Some("Humana")
      [] OTHER -> NoneV

\* Carrier ids a caller passes: two with a portal, one without.
AppCarrierIds == Carriers \cup {"carrier-aetna"}

\* What serde_json::from_str makes of members_json: a roster, or an error
\* (NoneV) for text that is not a list of members.
AppRosters ==
    {Some(<<>>),
     Some(<<[first_name |-> <<"J">>, last_name |-> <<"d">>, member_id |-> Some(<<"A">>)]>>),
     NoneV}

\* UpdateEnrollmentInput: the fields a caller sets; all others are None.
UpdateEnrollmentInputs ==
    {[status_code |-> Some("ACTIVE"), is_active |-> NoneV, plan_type_code |-> NoneV]}

Ok == Some([ok |-> TRUE, err |-> ""])
Err(msg) == Some([ok |-> FALSE, err |-> msg])

\* A caller that runs no command; ret is what its last command returned.
Idle(ret) == [cmd |-> "", pc |-> "idle", args |-> <<>>, frame |-> <<>>, ret |-> ret]

\* std::sync::Mutex::lock returns once no other thread holds the guard;
\* the mutex that never blocks is the store without a lock.
MutexFree_always == TRUE

MutexFree == db_state.guard = NoneV

\* SQL COALESCE(?, column).
COALESCE(param, column) == IF IsSome(param) THEN Unwrap(param) ELSE column

\* enrollment_repo::update_enrollment: the row after the UPDATE.
update_enrollment(enr, id, input) ==
    [enr EXCEPT ![id].plan_type_code = IF IsSome(input.plan_type_code)
                                       THEN input.plan_type_code ELSE @,
                ![id].status_code = COALESCE(input.status_code, @),
                ![id].is_active = COALESCE(input.is_active, @)]

\* Where a call of create_database or unlock_database fails: nowhere, at one
\* of its own steps, or in run_migrations at the batch or at the version
\* update of a migration.
AuthFailures ==
    [at : {"none", "derive_key", "write_salt", "open_encrypted_db", "read_version",
           "seed_data"},
     version : {0}]
    \cup [at : {"execute_batch", "pragma_update"}, version : Range(MIGRATIONS)]

NoFailure == [at |-> "none", version |-> 0]

\* The file Connection::open creates when there is none.
NewDbFile == [user_version |-> 0, applied |-> {}, partial |-> NoneV, seeded |-> FALSE]

\* The loop of run_migrations over the migrations ms still to visit;
\* current_version is the user_version read before the loop.  ran lists the
\* migrations whose batch this call ran to its end.
RECURSIVE apply_migrations(_, _, _, _)
apply_migrations(db, current_version, ms, fail) ==
    IF ms = <<>> THEN [db |-> db, ok |-> TRUE, err |-> "", ran |-> <<>>]
    ELSE LET version == Head(ms)
             batch_done == [db EXCEPT !.applied = @ \cup {version},
                                      !.partial = IF @ = Some(version) THEN NoneV ELSE @]
         IN  IF version > current_version
             THEN IF fail = [at |-> "execute_batch", version |-> version]
                  THEN [db |-> [db EXCEPT !.partial = Some(version)], ok |-> FALSE,
                        err |-> "Failed to apply migration", ran |-> <<>>]
                  ELSE IF fail = [at |-> "pragma_update", version |-> version]
                  THEN [db |-> batch_done, ok |-> FALSE,
                        err |-> "Failed to update user_version", ran |-> <<version>>]
                  ELSE LET rest == apply_migrations(
                                       [batch_done EXCEPT !.user_version = version],
                                       current_version, Tail(ms), fail)
                       IN  [rest EXCEPT !.ran = <<version>> \o @]
             ELSE apply_migrations(db, current_version, Tail(ms), fail)

\* run_migrations that also applies the migration of the stored version.
run_migrations_from_current(db, fail) ==
    IF fail.at = "read_version"
    THEN [db |-> db, ok |-> FALSE, err |-> "Failed to read user_version", ran |-> <<>>]
    ELSE apply_migrations(db, db.user_version - 1, MIGRATIONS, fail)

\* migrations::run_migrations on an open database.
run_migrations(db, fail) ==
    IF fail.at = "read_version"
    THEN [db |-> db, ok |-> FALSE, err |-> "Failed to read user_version", ran |-> <<>>]
    ELSE apply_migrations(db, db.user_version, MIGRATIONS, fail)

\* What create_database and unlock_database leave and return: the salt file,
\* the database file, Ok or the error, and what run_migrations did if it was
\* called.
AuthResult(salt, file, ok, err, migrated) ==
    [salt |-> salt, db |-> file, ok |-> ok, err |-> err,
     migrated |-> migrated # NoneV,
     migrations_ok |-> migrated # NoneV /\ Unwrap(migrated).ok,
     ran |-> IF migrated = NoneV THEN <<>> ELSE Unwrap(migrated).ran]

\* The tail that create_database and unlock_database share: open the
\* database (the file is created when there is none), run the migrations,
\* seed the reference data.
open_migrate_seed(salt, file, fail) ==
    IF fail.at = "open_encrypted_db"
    THEN AuthResult(salt, file, FALSE, "Invalid password", NoneV)
    ELSE LET opened == IF IsSome(file) THEN Unwrap(file) ELSE NewDbFile
             migrated == run_migrations(opened, fail)
         IN  IF ~migrated.ok
             THEN AuthResult(salt, Some(migrated.db), FALSE, migrated.err, Some(migrated))
             ELSE IF fail.at = "seed_data"
             THEN AuthResult(salt, Some(migrated.db), FALSE, "store error", Some(migrated))
             ELSE AuthResult(salt, Some([migrated.db EXCEPT !.seeded = TRUE]), TRUE, "",
                             Some(migrated))

\* is_first_run: no salt file exists.
is_first_run(salt) == ~salt

\* create_database that writes the salt file once the database is complete.
create_database_salt_last(salt, file, fail) ==
    IF ~is_first_run(salt)
    THEN AuthResult(salt, file, FALSE, "Database already exists. Use login instead.", NoneV)
    ELSE IF fail.at \in {"derive_key", "write_salt"}
    THEN AuthResult(salt, file, FALSE, "store error", NoneV)
    ELSE LET out == open_migrate_seed(salt, file, fail)
         IN  [out EXCEPT !.salt = out.ok]

\* auth_service::create_database.
create_database(salt, file, fail) ==
    IF ~is_first_run(salt)
    THEN AuthResult(salt, file, FALSE, "Database already exists. Use login instead.", NoneV)
    ELSE IF fail.at = "derive_key"
    THEN AuthResult(salt, file, FALSE, "Key derivation failed", NoneV)
    ELSE IF fail.at = "write_salt"
    THEN AuthResult(salt, file, FALSE, "Failed to write salt file", NoneV)
    ELSE open_migrate_seed(TRUE, file, fail)

\* auth_service::unlock_database.
unlock_database(salt, file, fail) ==
    IF ~salt
    THEN AuthResult(salt, file, FALSE, "Failed to read salt file", NoneV)
    ELSE IF fail.at = "derive_key"
    THEN AuthResult(salt, file, FALSE, "Key derivation failed", NoneV)
    ELSE open_migrate_seed(salt, file, fail)

\* The account a session starts from: none yet (no salt file, no database
\* file), or one whose database holds two uhc enrollments of two clients.
NoAccount == [conn |-> NoneV, guard |-> NoneV, salt |-> FALSE]
LoggedOut == [conn |-> NoneV, guard |-> NoneV, salt |-> TRUE]

InitApp ==
    /\ probe = NoProbe
    /\ runs = 0
    /\ lastRun = NoRun
    /\ app = NoApp
    /\ now = 1
    /\ sync_logs = <<>>
    /\ calls = [c \in Callers |-> Idle(NoneV)]
    /\ \/ /\ db_state = NoAccount
          /\ db_file = NoneV
          /\ clients = <<>>
          /\ enrollments = <<>>
          /\ scan = <<>>
       \/ /\ db_state = LoggedOut
          /\ db_file = Migrated
          /\ clients = [c \in ClientIds |->
                           IF c = "c1"
                           THEN [first_name |-> <<"j">>, last_name |-> <<"d">>,
                                 mbi |-> Some(<<"a">>), is_active |-> 1]
                           ELSE [first_name |-> <<"k">>, last_name |-> <<"d">>,
                                 mbi |-> NoneV, is_active |-> 1]]
          /\ enrollments = [e \in EnrollmentIds |->
                               InitRow(IF e = "e1" THEN "c1" ELSE "c2",
                                       "carrier-uhc", "ACTIVE", 1, NoneV)]
          /\ scan = <<"e1", "e2">>

\* The call returns: its thread is free for the next command.
Return(c, ret) == calls' = [calls EXCEPT ![c] = Idle(ret)]

\* The call returns from inside with_conn: the MutexGuard is dropped.
Release(c, ret) ==
    /\ Return(c, ret)
    /\ db_state' = [db_state EXCEPT !.guard = NoneV]

\* The syncs that have not returned yet.
SyncsInFlight == {c \in Callers : calls[c].cmd = "process_portal_members"}

\* process_portal_members, up to its call of with_conn.
InvokeSync(c) ==
    /\ calls[c].pc = "idle"
    /\ Len(sync_logs) + Cardinality(SyncsInFlight) < MaxLogs
    /\ \E carrier_id \in AppCarrierIds, members \in AppRosters :
          IF get_portal(carrier_id) = NoneV
          THEN Return(c, Err("No portal integration for carrier"))
          ELSE IF members = NoneV
          THEN Return(c, Err("Failed to parse member data"))
          ELSE calls' = [calls EXCEPT ![c] =
                   [cmd |-> "process_portal_members", pc |-> "with_conn",
                    args |-> [carrier_id |-> carrier_id,
                              carrier_name |-> Unwrap(get_portal(carrier_id)),
                              portal_members |-> Unwrap(members)],
                    frame |-> <<>>, ret |-> NoneV]]
    /\ UNCHANGED <<clients, enrollments, sync_logs, now, scan, runs, lastRun,
                   probe, db_state, app, db_file>>

\* The commands update_enrollment and get_sync_logs, up to with_conn.
InvokeUpdate(c) ==
    /\ calls[c].pc = "idle"
    /\ \E id \in EnrollmentIds, input \in UpdateEnrollmentInputs :
          calls' = [calls EXCEPT ![c] =
              [cmd |-> "update_enrollment", pc |-> "with_conn",
               args |-> [id |-> id, input |-> input], frame |-> <<>>, ret |-> NoneV]]
    /\ UNCHANGED <<clients, enrollments, sync_logs, now, scan, runs, lastRun,
                   probe, db_state, app, db_file>>

InvokeLogs(c) ==
    /\ calls[c].pc = "idle"
    /\ \E carrier_id \in {NoneV} \cup {Some(k) : k \in Carriers} :
          calls' = [calls EXCEPT ![c] =
              [cmd |-> "get_sync_logs", pc |-> "with_conn",
               args |-> [carrier_id |-> carrier_id], frame |-> <<>>, ret |-> NoneV]]
    /\ UNCHANGED <<clients, enrollments, sync_logs, now, scan, runs, lastRun,
                   probe, db_state, app, db_file>>

\* login, create_account and logout, up to their first blocking call.
InvokeAuth(c) ==
    /\ calls[c].pc = "idle"
    /\ \E cmd \in {"login", "create_account", "logout"} :
          calls' = [calls EXCEPT ![c] =
              [cmd |-> cmd,
               pc |-> CASE cmd = "login" -> "unlock_database"
                        [] cmd = "create_account" -> "create_database"
                        [] cmd = "logout" -> "clear_connection",
               args |-> <<>>, frame |-> <<>>, ret |-> NoneV]]
    /\ UNCHANGED <<clients, enrollments, sync_logs, now, scan, runs, lastRun,
                   probe, db_state, app, db_file>>

\* with_conn that runs the closure whether the slot holds a connection or not.
WithConn_unchecked(c) ==
    /\ calls[c].pc = "with_conn"
    /\ MutexFree
    /\ db_state' = [db_state EXCEPT !.guard = Some(c)]
    /\ calls' = [calls EXCEPT
          ![c].pc = IF calls[c].cmd = "process_portal_members"
                    THEN "get_local_enrollments" ELSE calls[c].cmd,
          ![c].frame = IF calls[c].cmd = "process_portal_members"
                       THEN [before |-> enrollments, logs_before |-> sync_logs,
                             local |-> <<>>, done |-> 0]
                       ELSE <<>>]
    /\ UNCHANGED <<clients, enrollments, sync_logs, now, scan, runs, lastRun, probe, app,
                   db_file>>

\* DbState::with_conn up to the call of the closure: take the mutex, then
\* return the error if the slot is empty, else run the closure on the
\* connection while holding the guard.
WithConn(c) ==
    /\ calls[c].pc = "with_conn"
    /\ MutexFree
    /\ IF db_state.conn = NoneV
       THEN /\ Return(c, Err("Database connection not initialized"))
            /\ UNCHANGED db_state
       ELSE /\ db_state' = [db_state EXCEPT !.guard = Some(c)]
            /\ calls' = [calls EXCEPT
                  ![c].pc = IF calls[c].cmd = "process_portal_members"
                            THEN "get_local_enrollments" ELSE calls[c].cmd,
                  ![c].frame = IF calls[c].cmd = "process_portal_members"
                               THEN [before |-> enrollments, logs_before |-> sync_logs,
                                     local |-> <<>>, done |-> 0]
                               ELSE <<>>]
    /\ UNCHANGED <<clients, enrollments, sync_logs, now, scan, runs, lastRun, probe, app,
                   db_file>>

\* The locals of the run_sync call of a caller, from what step 1 loaded.
CallMatched(call) == MatchedEnrollmentIds(call.frame.local, call.args.portal_members)
CallNew(call) == NewInPortal(call.frame.local, call.args.portal_members)
CallUnmatched(call) == Unmatched(call.frame.local, CallMatched(call))

\* run_sync step 1 (get_local_enrollments) and step 2 (matching, no store
\* access).
LoadLocals(c) ==
    /\ calls[c].pc = "get_local_enrollments"
    /\ LET local == get_local_enrollments(clients, enrollments, calls[c].args.carrier_id, scan)
           loaded == [calls[c] EXCEPT !.frame.local = local]
       IN  calls' = [calls EXCEPT ![c] =
               [loaded EXCEPT !.pc = IF CallUnmatched(loaded) = <<>>
                                     THEN "log_sync" ELSE "disenroll_enrollment"]]
    /\ UNCHANGED <<clients, enrollments, sync_logs, now, scan, runs, lastRun,
                   probe, db_state, app, db_file>>

\* run_sync step 3: one turn of the loop, for the next unmatched local.
Disenroll(c) ==
    /\ calls[c].pc = "disenroll_enrollment"
    /\ LET unmatched == CallUnmatched(calls[c])
           done == calls[c].frame.done
       IN  /\ enrollments' =
                 disenroll_enrollment(enrollments, unmatched[done + 1].enrollment_id, now)
           /\ calls' = [calls EXCEPT
                 ![c].frame.done = done + 1,
                 ![c].pc = IF done + 1 = Len(unmatched)
                           THEN "log_sync" ELSE "disenroll_enrollment"]
    /\ UNCHANGED <<clients, sync_logs, now, scan, runs, lastRun, probe, db_state, app,
                   db_file>>

\* run_sync step 4 and the return of Ok(SyncResult).
LogSync(c) ==
    /\ calls[c].pc = "log_sync"
    /\ sync_logs' = log_sync(sync_logs, calls[c].args.carrier_id,
                             Len(calls[c].args.portal_members),
                             Len(CallMatched(calls[c])),
                             calls[c].frame.done,
                             Len(CallNew(calls[c])))
    /\ Release(c, Ok)
    /\ UNCHANGED <<clients, enrollments, now, scan, runs, lastRun, probe, app, db_file>>

\* A statement of the closure fails and `?` returns the error.
StoreError(c) ==
    /\ calls[c].pc \in {"get_local_enrollments", "disenroll_enrollment", "log_sync",
                        "update_enrollment", "get_sync_logs"}
    /\ Release(c, Err("store error"))
    /\ UNCHANGED <<clients, enrollments, sync_logs, now, scan, runs, lastRun, probe, app,
                   db_file>>

\* enrollment_service::update_enrollment inside with_conn.  (The system
\* event it writes goes to the conversation tables.)
UpdateEnrollment(c) ==
    /\ calls[c].pc = "update_enrollment"
    /\ IF calls[c].args.id \in DOMAIN enrollments
       THEN /\ enrollments' = update_enrollment(enrollments, calls[c].args.id,
                                                calls[c].args.input)
            /\ Release(c, Ok)
       ELSE /\ Release(c, Err("Enrollment not found"))
            /\ UNCHANGED enrollments
    /\ UNCHANGED <<clients, sync_logs, now, scan, runs, lastRun, probe, app, db_file>>

\* carrier_sync_service::get_sync_logs inside with_conn: a SELECT.
GetSyncLogs(c) ==
    /\ calls[c].pc = "get_sync_logs"
    /\ Release(c, Ok)
    /\ UNCHANGED <<clients, enrollments, sync_logs, now, scan, runs, lastRun, probe, app,
                   db_file>>

\* The failures a session meets: none, a database that does not open with
\* the key (wrong password), a first migration whose batch fails.
SessionFailures ==
    {NoFailure, [at |-> "open_encrypted_db", version |-> 0],
     [at |-> "execute_batch", version |-> 1]}

\* login: auth_service::unlock_database on the blocking pool.  It opens a
\* connection of its own to the database file and runs the pending
\* migrations and the seed inserts on it, all without the mutex.
UnlockDatabase(c) ==
    /\ calls[c].pc = "unlock_database"
    /\ \E fail \in SessionFailures :
          LET out == unlock_database(db_state.salt, db_file, fail)
          IN  /\ db_file' = out.db
              /\ IF out.ok
                 THEN calls' = [calls EXCEPT ![c].pc = "set_connection"]
                 ELSE Return(c, Err(out.err))
    /\ UNCHANGED <<clients, enrollments, sync_logs, now, scan, runs, lastRun,
                   probe, db_state, app>>

\* create_account: auth_service::create_database on the blocking pool:
\* refuse when a salt file exists, else write the salt and create the
\* database (migrations and seed), which holds no client and no enrollment.
CreateDatabase(c) ==
    /\ calls[c].pc = "create_database"
    /\ \E fail \in SessionFailures :
          LET out == create_database(db_state.salt, db_file, fail)
          IN  /\ db_file' = out.db
              /\ db_state' = [db_state EXCEPT !.salt = out.salt]
              /\ IF out.ok
                 THEN calls' = [calls EXCEPT ![c].pc = "set_connection"]
                 ELSE Return(c, Err(out.err))
    /\ UNCHANGED <<clients, enrollments, sync_logs, now, scan, runs, lastRun, probe, app>>

\* DbState::set_connection, then login / create_account return Ok.
SetConnection(c) ==
    /\ calls[c].pc = "set_connection"
    /\ MutexFree
    /\ db_state' = [db_state EXCEPT !.conn = Some("sheeps.db")]
    /\ Return(c, Ok)
    /\ UNCHANGED <<clients, enrollments, sync_logs, now, scan, runs, lastRun, probe, app,
                   db_file>>

\* DbState::clear_connection, then logout returns Ok.
ClearConnection(c) ==
    /\ calls[c].pc = "clear_connection"
    /\ MutexFree
    /\ db_state' = [db_state EXCEPT !.conn = NoneV]
    /\ Return(c, Ok)
    /\ UNCHANGED <<clients, enrollments, sync_logs, now, scan, runs, lastRun, probe, app,
                   db_file>>

NextApp ==
    \E c \in Callers :
        \/ InvokeSync(c)
        \/ InvokeUpdate(c)
        \/ InvokeLogs(c)
        \/ InvokeAuth(c)
        \/ WithConn(c)
        \/ LoadLocals(c)
        \/ Disenroll(c)
        \/ LogSync(c)
        \/ StoreError(c)
        \/ UpdateEnrollment(c)
        \/ GetSyncLogs(c)
        \/ UnlockDatabase(c)
        \/ CreateDatabase(c)
        \/ SetConnection(c)
        \/ ClearConnection(c)

SpecApp == InitApp /\ [][NextApp]_vars

----------------------------------------------------------------------------
(* get_sync_logs on its own: any carrier_sync_logs table, any filter *)

\* LIMIT 50 of both statements of get_sync_logs.
LogLimit == 50

\* Most rows the table holds.
MaxLogRows == 52

\* carriers.name of the rows seed_carriers inserts.
SeededCarrierName(carrier_id) ==
    CASE carrier_id = "carrier-uhc" -> Some("UnitedHealthcare")
      [] carrier_id = "carrier-humana" -> Some("Humana")
      [] OTHER -> NoneV

\* ORDER BY sl.synced_at DESC: the row that comes first among rows.  SQLite
\* leaves the order of rows with equal synced_at open; `tie` says whether
\* the earlier or the later inserted row of them comes first.
FirstBySyncedAtDesc(rows, tie) ==
    CHOOSE i \in 1..Len(rows) :
        \A j \in 1..Len(rows) :
            \/ rows[j].synced_at < rows[i].synced_at
            \/ /\ rows[j].synced_at = rows[i].synced_at
               /\ IF tie = "rowid" THEN i <= j ELSE i >= j

RECURSIVE OrderBySyncedAtAsc(_, _)
OrderBySyncedAtAsc(rows, tie) ==
    IF rows = <<>> THEN <<>>
    ELSE LET i == FirstBySyncedAtDesc(rows, tie)
         IN  Append(OrderBySyncedAtAsc(SubSeq(rows, 1, i - 1) \o SubSeq(rows, i + 1, Len(rows)), tie),
                    rows[i])

RECURSIVE OrderBySyncedAtDesc(_, _)
OrderBySyncedAtDesc(rows, tie) ==
    IF rows = <<>> THEN <<>>
    ELSE LET i == FirstBySyncedAtDesc(rows, tie)
         IN  <<rows[i]>> \o
             OrderBySyncedAtDesc(SubSeq(rows, 1, i - 1) \o SubSeq(rows, i + 1, Len(rows)), tie)

\* One row of the result mapped to a SyncLogEntry; cr.name comes from the
\* LEFT JOIN with carriers.
SyncLogEntry(sl) ==
    [id |-> sl.id,
     carrier_id |-> sl.carrier_id,
     carrier_name |-> SeededCarrierName(sl.carrier_id),
     synced_at |-> sl.synced_at,
     portal_count |-> sl.portal_count,
     matched |-> sl.matched,
     disenrolled |-> sl.disenrolled,
     new_found |-> sl.new_found,
     status |-> sl.status]

\* get_sync_logs with ORDER BY sl.synced_at ASC.
get_sync_logs_oldest_first(logs, carrier_id, tie) ==
    LET selected == IF IsSome(carrier_id)
                    THEN SelectSeq(logs, LAMBDA sl : sl.carrier_id = Unwrap(carrier_id))
                    ELSE logs
        ordered == OrderBySyncedAtAsc(selected, tie)
        limited == SubSeq(ordered, 1, IF Len(ordered) < LogLimit THEN Len(ordered) ELSE LogLimit)
    IN  [i \in 1..Len(limited) |-> SyncLogEntry(limited[i])]

\* get_sync_logs(conn, carrier_id): WHERE sl.carrier_id = ?1 when a carrier
\* is given, ORDER BY sl.synced_at DESC, LIMIT 50.
get_sync_logs(logs, carrier_id, tie) ==
    LET selected == IF IsSome(carrier_id)
                    THEN SelectSeq(logs, LAMBDA sl : sl.carrier_id = Unwrap(carrier_id))
                    ELSE logs
        ordered == OrderBySyncedAtDesc(selected, tie)
        limited == SubSeq(ordered, 1, IF Len(ordered) < LogLimit THEN Len(ordered) ELSE LogLimit)
    IN  [i \in 1..Len(limited) |-> SyncLogEntry(limited[i])]

\* The tables: how many rows, which carrier each row is of, and when each
\* row was written (all at once, one after the other, two at a time, or in
\* no order at all).
LogSizes == 0..3 \cup (LogLimit - 1)..MaxLogRows
LogCarrierPatterns == {"uhc", "one humana", "alternating"}
LogTimePatterns == {"same", "rising", "pairs", "falling", "mixed"}

LogRow(i, n, carriers, times) ==
    [id |-> i,
     carrier_id |-> CASE carriers = "uhc" -> "carrier-uhc"
                      [] carriers = "one humana" ->
                            IF i = 2 THEN "carrier-humana" ELSE "carrier-uhc"
                      [] carriers = "alternating" ->
                            IF i % 2 = 0 THEN "carrier-humana" ELSE "carrier-uhc",
     synced_at |-> CASE times = "same" -> datetime(1)
                     [] times = "rising" -> datetime(i)
                     [] times = "pairs" -> datetime(i \div 2)
                     [] times = "falling" -> datetime(n - i)
                     [] times = "mixed" -> datetime((i * 7) % 5),
     portal_count |-> 0, matched |-> 0, disenrolled |-> 0, new_found |-> 0,
     status |-> "completed"]

LogsCaller == "ui1"

InitLogs ==
    /\ probe = NoProbe
    /\ runs = 0
    /\ lastRun = NoRun
    /\ app = NoApp
    /\ db_file = Migrated
    /\ now = 1
    /\ clients = <<>>
    /\ enrollments = <<>>
    /\ scan = <<>>
    /\ db_state = [LoggedIn EXCEPT !.guard = Some(LogsCaller)]
    /\ \E n \in LogSizes, carriers \in LogCarrierPatterns, times \in LogTimePatterns :
          sync_logs = [i \in 1..n |-> LogRow(i, n, carriers, times)]
    /\ \E carrier_id \in {NoneV} \cup {Some(k) : k \in AppCarrierIds} :
          calls = [c \in {LogsCaller} |->
                      [cmd |-> "get_sync_logs", pc |-> "get_sync_logs",
                       args |-> [carrier_id |-> carrier_id], frame |-> <<>>,
                       ret |-> NoneV]]

\* The closure of the get_sync_logs command: the query, and the entries
\* returned to the caller.
ListLogs ==
    /\ calls[LogsCaller].pc = "get_sync_logs"
    /\ \E tie \in {"rowid", "reverse rowid"} :
          calls' = [calls EXCEPT ![LogsCaller] =
              [@ EXCEPT !.pc = "idle",
                        !.ret = Some([ok |-> TRUE, err |-> "",
                                      entries |-> get_sync_logs(sync_logs,
                                                     calls[LogsCaller].args.carrier_id, tie)])]]
    /\ db_state' = [db_state EXCEPT !.guard = NoneV]
    /\ UNCHANGED <<clients, enrollments, sync_logs, now, scan, runs, lastRun, probe, app,
                   db_file>>

NextLogs == ListLogs

SpecLogs == InitLogs /\ [][NextLogs]_vars

----------------------------------------------------------------------------
(* What the claims speak about *)

Ran == runs > 0
RanOk == runs > 0 /\ IsSome(lastRun.ret)
Result == Unwrap(lastRun.ret)

\* The "seen" set of the last run and the enrollments its result lists.
Seen == Range(lastRun.matched_enrollment_ids)
DisenrolledIds == {Result.disenrolled[i].enrollment_id : i \in 1..Len(Result.disenrolled)}
LoadedIds == {lastRun.local[i].enrollment_id : i \in 1..Len(lastRun.local)}

\* The portal member carries the identifier of the local enrollment's client.
SameIdentifier(le, pm) ==
    /\ IsSome(le.client_mbi)
    /\ IsSome(pm.member_id)
    /\ eq_ignore_ascii_case(Unwrap(le.client_mbi), Unwrap(pm.member_id))

SameName(le, pm) ==
    /\ eq_ignore_ascii_case(le.client_first_name, pm.first_name)
    /\ eq_ignore_ascii_case(le.client_last_name, pm.last_name)

\* The enrollment was eligible for the last run when it started.
EligibleBefore(e) ==
    /\ lastRun.before[e].carrier_id = lastRun.carrier_id
    /\ lastRun.before[e].status_code \in {"ACTIVE", "PENDING"}
    /\ lastRun.before[e].is_active = 1
    /\ clients[lastRun.before[e].client_id].is_active = 1

\* The row as disenroll_enrollment leaves it when run at the time of the last run.
IsDisenrolledByLastRun(e) ==
    /\ enrollments[e].status_code = "DISENROLLED"
    /\ enrollments[e].disenrollment_reason = Some(SyncDisenrollReason)
    /\ enrollments[e].termination_date = Some(lastRun.at \div 2)
    /\ enrollments[e].updated_at = lastRun.at

----------------------------------------------------------------------------
(* C1 *)

\* C1 as stated: after an Ok run every loaded local enrollment whose client
\* MBI equals the member_id of some portal member is in the seen set, is not
\* listed as disenrolled and keeps its status.
C1_EveryIdentifierMatchKept ==
    RanOk =>
        \A i \in 1..Len(lastRun.local) :
            (\E k \in 1..Len(lastRun.portal_members) :
                 SameIdentifier(lastRun.local[i], lastRun.portal_members[k]))
            => LET e == lastRun.local[i].enrollment_id
               IN  /\ e \in Seen
                   /\ e \notin DisenrolledIds
                   /\ enrollments[e].status_code = lastRun.before[e].status_code

\* C1 amended: after an Ok run, for every portal member that carries an
\* identifier, the first loaded local enrollment (in load order) whose client
\* MBI equals it is in the seen set, is not listed as disenrolled and keeps
\* its status, whatever the names on either side are.
C1_FirstIdentifierMatchKept ==
    RanOk =>
        \A i \in 1..Len(lastRun.local), k \in 1..Len(lastRun.portal_members) :
            (/\ SameIdentifier(lastRun.local[i], lastRun.portal_members[k])
             /\ \A j \in 1..(i - 1) :
                    ~SameIdentifier(lastRun.local[j], lastRun.portal_members[k]))
            => LET e == lastRun.local[i].enrollment_id
               IN  /\ e \in Seen
                   /\ e \notin DisenrolledIds
                   /\ enrollments[e].status_code = lastRun.before[e].status_code

\* An Ok run in which a local matched a member by identifier only (the letter
\* case differs and the names differ) while another local was disenrolled.
C1_Witness ==
    /\ RanOk
    /\ Len(Result.disenrolled) > 0
    /\ \E i \in 1..Len(lastRun.local), k \in 1..Len(lastRun.portal_members) :
          /\ SameIdentifier(lastRun.local[i], lastRun.portal_members[k])
          /\ Unwrap(lastRun.local[i].client_mbi) # Unwrap(lastRun.portal_members[k].member_id)
          /\ ~SameName(lastRun.local[i], lastRun.portal_members[k])
          /\ lastRun.local[i].enrollment_id \in Seen

----------------------------------------------------------------------------
(* C2 *)

\* C2: after an Ok run every loaded local enrollment that no portal member
\* matched has the disenrolled sentinel as status, the sync reason, the
\* calendar date of the run as termination date, and is listed exactly once
\* in the returned disenrolled list.
C2_UnmatchedDisenrolled ==
    RanOk =>
        \A e \in LoadedIds \ Seen :
            /\ enrollments[e].status_code = "DISENROLLED"
            /\ enrollments[e].disenrollment_reason =
                   Some("Carrier portal sync - not found in portal")
            /\ enrollments[e].termination_date = Some(lastRun.at \div 2)
            /\ Cardinality({i \in 1..Len(Result.disenrolled) :
                               Result.disenrolled[i].enrollment_id = e}) = 1

\* An Ok run that left a local unmatched while it matched another.
C2_Witness ==
    /\ RanOk
    /\ LoadedIds \ Seen # {}
    /\ Seen # {}

----------------------------------------------------------------------------
(* C3 *)

\* C3: a run never writes an enrollment it matched: the whole row of every
\* enrollment in the seen set is after the run what it was before.
C3_MatchedUntouched ==
    Ran => \A e \in Seen : enrollments[e] = lastRun.before[e]

\* A run that matched one local and wrote another.
C3_Witness ==
    /\ Ran
    /\ Seen # {}
    /\ \E e \in LoadedIds : enrollments[e] # lastRun.before[e]

----------------------------------------------------------------------------
(* C4 *)

\* C4: every enrollment a run counts as matched or lists as disenrolled was
\* eligible when the run started (carrier of the run, ACTIVE or PENDING,
\* active flag set, owning client active); every other enrollment is neither
\* matched nor written.
C4_OnlyEligibleTouched ==
    Ran =>
        /\ \A e \in Seen : EligibleBefore(e)
        /\ RanOk => \A e \in DisenrolledIds : EligibleBefore(e)
        /\ \A e \in DOMAIN enrollments :
              ~EligibleBefore(e) => (e \notin Seen /\ enrollments[e] = lastRun.before[e])

\* A run that disenrolled one enrollment while an ineligible enrollment, whose
\* client a portal member names, stayed as it was.
C4_Witness ==
    /\ RanOk
    /\ DisenrolledIds # {}
    /\ \E e \in DOMAIN enrollments :
          /\ ~EligibleBefore(e)
          /\ \E k \in 1..Len(lastRun.portal_members) :
                SameName(LocalEnrollment(clients, lastRun.before, e),
                         lastRun.portal_members[k])

----------------------------------------------------------------------------
(* C5 *)

----------------------------------------------------------------------------
(* C7 *)

\* C7 as stated: in the result and in the log row of an Ok run, matched is
\* the number of distinct local enrollments matched by some portal member, so
\* matched plus the number of disenrolled enrollments is local_count.
C7_MatchedIsSizeOfSeenSet ==
    RanOk =>
        /\ Result.matched = Cardinality(Seen)
        /\ Result.matched + Len(Result.disenrolled) = Result.local_count
        /\ sync_logs[Len(sync_logs)].matched = Cardinality(Seen)

----------------------------------------------------------------------------
(* C8 *)

\* Some loaded local enrollment answers to the portal member, by identifier
\* or by first and last name.
Matchable(pm) ==
    \E i \in 1..Len(lastRun.local) :
        SameIdentifier(lastRun.local[i], pm) \/ SameName(lastRun.local[i], pm)

RECURSIVE Unmatchable(_)
Unmatchable(pms) ==
    IF pms = <<>> THEN <<>>
    ELSE IF Matchable(Head(pms)) THEN Unmatchable(Tail(pms))
    ELSE <<Head(pms)>> \o Unmatchable(Tail(pms))

\* C8: an Ok run handles each portal member once: new_in_portal holds, in
\* input order and unmodified, exactly the members that answer to no loaded
\* local enrollment, and every other member added one id to the matched ids.
C8_EachMemberHandledOnce ==
    RanOk =>
        /\ Result.new_in_portal = Unmatchable(lastRun.portal_members)
        /\ Len(lastRun.matched_enrollment_ids) + Len(Result.new_in_portal)
              = Len(lastRun.portal_members)

\* An Ok run over loaded locals that reported two different unmatched members.
C8_Witness ==
    /\ RanOk
    /\ Len(lastRun.local) > 0
    /\ Len(Result.new_in_portal) = 2
    /\ Result.new_in_portal[1] # Result.new_in_portal[2]

----------------------------------------------------------------------------
(* C9 *)

\* C9: an Ok run appends exactly one log row, for the carrier of the run,
\* whose counts are those of the returned SyncResult.
C9_OneLogRowPerOkRun ==
    RanOk =>
        /\ Len(sync_logs) = Len(lastRun.logs_before) + 1
        /\ SubSeq(sync_logs, 1, Len(lastRun.logs_before)) = lastRun.logs_before
        /\ LET row == sync_logs[Len(sync_logs)]
           IN  /\ row.carrier_id = lastRun.carrier_id
               /\ row.portal_count = Result.portal_count
               /\ row.matched = Result.matched
               /\ row.disenrolled = Len(Result.disenrolled)
               /\ row.new_found = Len(Result.new_in_portal)

\* An Ok run that logged a roster of two members, one matched and one new,
\* and one disenrolled enrollment.
C9_Witness ==
    /\ RanOk
    /\ Len(sync_logs) = 1
    /\ sync_logs[1].portal_count = 2
    /\ sync_logs[1].matched = 1
    /\ sync_logs[1].new_found = 1
    /\ sync_logs[1].disenrolled = 1

----------------------------------------------------------------------------
(* C10 *)

\* The loaded locals no portal member matched, in load order.
UnmatchedLoaded ==
    SelectSeq(lastRun.local, LAMBDA le : le.enrollment_id \notin Seen)

\* C10: when the load or the k-th disenrollment write of a run fails, the run
\* returns an error and no SyncResult, appends no log row, leaves the k-1
\* disenrollments written before the failure in place and leaves every other
\* enrollment as it was.
C10_FailureKeepsPartialWrites ==
    (Ran /\ lastRun.fail_at \in 1..(Len(UnmatchedLoaded) + 1)) =>
        /\ lastRun.ret = NoneV
        /\ sync_logs = lastRun.logs_before
        /\ LET written == {UnmatchedLoaded[i].enrollment_id : i \in 1..(lastRun.fail_at - 2)}
           IN  \A e \in DOMAIN enrollments :
                  IF e \in written THEN IsDisenrolledByLastRun(e)
                  ELSE enrollments[e] = lastRun.before[e]

\* A run whose second disenrollment write failed: the first stays written,
\* the second enrollment is unchanged.
C10_Witness ==
    /\ Ran
    /\ Len(UnmatchedLoaded) = 2
    /\ lastRun.fail_at = 3
    /\ IsDisenrolledByLastRun(UnmatchedLoaded[1].enrollment_id)
    /\ enrollments[UnmatchedLoaded[2].enrollment_id].status_code \in {"ACTIVE", "PENDING"}

----------------------------------------------------------------------------
(* C6 *)

\* C6: when the first local whose MBI equals the member's identifier does not
\* match the member by name, and a different local matches the member by
\* first and last name but not by identifier, find_match returns the local
\* with the matching MBI, wherever the two stand in the list.
C6_IdentifierBeatsName ==
    probe.called =>
        \A i \in 1..Len(probe.locals), j \in 1..Len(probe.locals) :
            (/\ SameIdentifier(probe.locals[i], probe.portal)
             /\ \A h \in 1..(i - 1) : ~SameIdentifier(probe.locals[h], probe.portal)
             /\ ~SameName(probe.locals[i], probe.portal)
             /\ SameName(probe.locals[j], probe.portal)
             /\ ~SameIdentifier(probe.locals[j], probe.portal))
            => probe.result = Some(probe.locals[i])

\* find_match returned the local with the matching MBI although a local that
\* matches by name only stands before it in the list.
C6_Witness ==
    /\ probe.called
    /\ \E i \in 1..Len(probe.locals), j \in 1..Len(probe.locals) :
          /\ j < i
          /\ SameIdentifier(probe.locals[i], probe.portal)
          /\ ~SameName(probe.locals[i], probe.portal)
          /\ SameName(probe.locals[j], probe.portal)
          /\ ~SameIdentifier(probe.locals[j], probe.portal)
          /\ probe.result = Some(probe.locals[i])

----------------------------------------------------------------------------
(* C11 *)

\* C11: when the INSERT of log_sync fails after the disenrollment writes of a
\* run, the run returns an error, no log row is added, every loaded local
\* that no member matched stays disenrolled as the run wrote it, and every
\* other enrollment is as it was before the run.
C11_LogFailureKeepsDisenrollments ==
    (Ran /\ lastRun.fail_at = Len(UnmatchedLoaded) + 2) =>
        /\ lastRun.ret = NoneV
        /\ sync_logs = lastRun.logs_before
        /\ \A e \in DOMAIN enrollments :
              IF e \in LoadedIds \ Seen THEN IsDisenrolledByLastRun(e)
              ELSE enrollments[e] = lastRun.before[e]

\* A run that wrote a disenrollment, matched another local, and then failed
\* to append its log row.
C11_Witness ==
    /\ Ran
    /\ Len(UnmatchedLoaded) = 1
    /\ Seen # {}
    /\ lastRun.fail_at = 3
    /\ lastRun.ret = NoneV
    /\ IsDisenrolledByLastRun(UnmatchedLoaded[1].enrollment_id)
    /\ lastRun.before[UnmatchedLoaded[1].enrollment_id].status_code \in {"ACTIVE", "PENDING"}

----------------------------------------------------------------------------
(* C12 *)

\* The caller is inside the closure of with_conn / inside run_sync.
InBody(c) ==
    calls[c].pc \in {"get_local_enrollments", "disenroll_enrollment", "log_sync",
                     "update_enrollment", "get_sync_logs"}
SyncInProgress(c) ==
    calls[c].pc \in {"get_local_enrollments", "disenroll_enrollment", "log_sync"}

Stepped(u) == calls'[u] # calls[u]

\* At most one caller is inside a closure of with_conn, and it holds the guard.
MutualExclusion ==
    /\ Cardinality({c \in Callers : InBody(c)}) <= 1
    /\ \A c \in Callers : InBody(c) => db_state.guard = Some(c)

\* The store operation of run_sync that failed when the sync of caller c
\* returns in this step (0: none).
FailedAt(c) ==
    IF calls'[c].ret = Ok THEN 0
    ELSE CASE calls[c].pc = "get_local_enrollments" -> 1
           [] calls[c].pc = "disenroll_enrollment" -> calls[c].frame.done + 2
           [] calls[c].pc = "log_sync" -> Len(CallUnmatched(calls[c])) + 2

\* When the sync of caller c returns in this step, the store is the one a
\* single uninterrupted run_sync makes of the store the sync found when it
\* took the mutex.
SyncIsOneRun(c) ==
    (SyncInProgress(c) /\ calls'[c].pc = "idle") =>
        LET call == calls[c]
            out == run_sync(clients, call.frame.before, call.frame.logs_before,
                            call.args.carrier_id, call.args.carrier_name,
                            call.args.portal_members, scan, FailedAt(c), now)
        IN  /\ enrollments' = out.enrollments
            /\ sync_logs' = out.sync_logs
            /\ (calls'[c].ret = Ok) = IsSome(out.ret)

\* While the sync of caller c is in progress, only c changes the store and
\* the connection slot, and what another caller does is a step from one of
\* the positions `outside`.
OnlyStepsFrom(outside, c) ==
    SyncInProgress(c) =>
        /\ \A u \in Callers \ {c} : Stepped(u) => calls[u].pc \in outside
        /\ ~Stepped(c) => UNCHANGED <<enrollments, sync_logs, db_state>>

\* C12 as stated: every database operation is serialized: while a sync is
\* between taking the mutex and returning, the only step another caller takes
\* is the start of a command (no database operation at all), and the sync
\* leaves the store as one uninterrupted run does.
C12_AllDatabaseOperationsSerialized ==
    /\ []MutualExclusion
    /\ [][\A c \in Callers : OnlyStepsFrom({"idle"}, c) /\ SyncIsOneRun(c)]_vars

\* C12 amended: the closures of with_conn (another sync, update_enrollment,
\* get_sync_logs) and set_connection / clear_connection are serialized with a
\* sync in progress, and the sync leaves the store as one uninterrupted run
\* does; what another caller can do meanwhile is start a command or run the
\* unlock_database / create_database of login / create_account, which work
\* on a connection of their own outside the mutex.
C12_MutexOperationsSerialized ==
    /\ []MutualExclusion
    /\ [][\A c \in Callers :
             /\ OnlyStepsFrom({"idle", "unlock_database", "create_database"}, c)
             /\ SyncIsOneRun(c)]_vars

\* A sync that has written one of its two disenrollments while another sync,
\* a login and so on wait: here the other caller's sync waits for the mutex.
C12_Witness ==
    \E c \in Callers, u \in Callers :
        /\ c # u
        /\ calls[c].pc = "disenroll_enrollment"
        /\ calls[c].frame.done = 1
        /\ calls[u].cmd = "process_portal_members"
        /\ calls[u].pc = "with_conn"

----------------------------------------------------------------------------
(* C13 *)

NotInitialized == Err("Database connection not initialized")

\* C13: a closure of with_conn runs only while DbState holds a connection.
\* A process_portal_members or get_sync_logs call that reaches with_conn
\* while the slot is empty returns the error at once and changes no row; a
\* call of either returns Ok only if the slot held a connection; and an empty
\* slot is filled only by the set_connection of a login or create_account.
C13_NoConnectionNoEffect ==
    /\ [](\A c \in Callers : InBody(c) => db_state.conn # NoneV)
    /\ [][/\ \A c \in Callers :
               (/\ calls[c].cmd \in {"process_portal_members", "get_sync_logs"}
                /\ Stepped(c))
               => /\ (calls[c].pc = "with_conn" /\ db_state.conn = NoneV)
                        => /\ calls'[c] = Idle(NotInitialized)
                           /\ UNCHANGED <<clients, enrollments, sync_logs, db_state>>
                  /\ calls'[c].ret = Ok => db_state.conn # NoneV
          /\ (db_state.conn = NoneV /\ db_state'.conn # NoneV)
                => \E c \in Callers :
                      /\ calls[c].cmd \in {"login", "create_account"}
                      /\ calls[c].pc = "set_connection"
                      /\ calls'[c] = Idle(Ok)]_vars

\* After a session in which a sync disenrolled an enrollment and logged its
\* run, the slot is empty again (logout) and a command has been refused.
C13_Witness ==
    /\ db_state.conn = NoneV
    /\ Len(sync_logs) = 1
    /\ sync_logs[1].disenrolled > 0
    /\ \E c \in Callers, u \in Callers :
          /\ calls[c].ret = NotInitialized
          /\ calls[u].ret = Ok

----------------------------------------------------------------------------
(* C14 *)

Listed == calls[LogsCaller].pc = "idle"
Entries == Unwrap(calls[LogsCaller].ret).entries
Filter == calls[LogsCaller].args.carrier_id

\* The rows of the table a call with this filter asks for.
Wanted == {i \in 1..Len(sync_logs) : IsSome(Filter) => sync_logs[i].carrier_id = Unwrap(Filter)}

\* C14: get_sync_logs returns at most 50 entries, each a row of the table
\* (each row at most once), newest first by synced_at; with a carrier id all
\* entries are of that carrier, without one rows of every carrier qualify;
\* and a qualifying row is left out only when 50 entries are returned and
\* none of them is older than it.
C14_NewestFiftyOfCarrier ==
    Listed =>
        /\ Len(Entries) <= 50
        /\ \A i \in 1..Len(Entries) :
              /\ Entries[i].id \in Wanted
              /\ Entries[i].synced_at = sync_logs[Entries[i].id].synced_at
              /\ Entries[i].carrier_id = sync_logs[Entries[i].id].carrier_id
              /\ \A j \in (i + 1)..Len(Entries) :
                    /\ Entries[i].synced_at >= Entries[j].synced_at
                    /\ Entries[i].id # Entries[j].id
        /\ \A w \in Wanted \ {Entries[i].id : i \in 1..Len(Entries)} :
              /\ Len(Entries) = 50
              /\ \A i \in 1..Len(Entries) : Entries[i].synced_at >= sync_logs[w].synced_at

\* A call for one carrier over a table of both carriers, written one row
\* after the other, that holds more than 50 rows of the carrier: 50 entries
\* come back and the oldest row of the carrier does not.
C14_Witness ==
    /\ Listed
    /\ Filter = Some("carrier-uhc")
    /\ \E i \in 1..Len(sync_logs) : sync_logs[i].carrier_id = "carrier-humana"
    /\ Cardinality(Wanted) > 50
    /\ Len(Entries) = 50
    /\ Entries[1].synced_at > Entries[50].synced_at
    /\ 1 \notin {Entries[i].id : i \in 1..Len(Entries)}

----------------------------------------------------------------------------
(* C15 *)

\* The locals of the probe that match the member by first and last name.
NameHits == {i \in 1..Len(probe.locals) : SameName(probe.locals[i], probe.portal)}

NoIdentifierHit ==
    \A i \in 1..Len(probe.locals) : ~SameIdentifier(probe.locals[i], probe.portal)

\* C15: when no local has an MBI equal to the member's identifier (or the
\* member has none), find_match returns the first local in list order whose
\* first and last name both equal the member's, ignoring ASCII case, and
\* none when there is no such local; a local of which only one name matches
\* is not returned.
C15_NameFallbackNeedsBothNames ==
    (probe.called /\ NoIdentifierHit) =>
        /\ probe.result = IF NameHits = {} THEN NoneV
                          ELSE Some(probe.locals[Min(NameHits)])
        /\ \A i \in 1..Len(probe.locals) :
              (eq_ignore_ascii_case(probe.locals[i].client_first_name, probe.portal.first_name)
                  # eq_ignore_ascii_case(probe.locals[i].client_last_name, probe.portal.last_name))
              => probe.result # Some(probe.locals[i])

\* find_match passed over a first local that has the member's last name only
\* (and another identifier) and returned the second, whose names both match
\* in another letter case.
C15_Witness ==
    /\ probe.called
    /\ Len(probe.locals) = 2
    /\ probe.portal.member_id = Some(<<"A">>)
    /\ probe.locals[1].client_mbi = Some(<<>>)
    /\ probe.locals[1].client_first_name = <<"k">>
    /\ probe.locals[1].client_last_name = <<"e">>
    /\ probe.portal.first_name = <<"J">>
    /\ probe.portal.last_name = <<"E">>
    /\ probe.locals[2].client_first_name = <<"j">>
    /\ probe.result = Some(probe.locals[2])

----------------------------------------------------------------------------
(* C16 *)

\* C16 as stated: a member whose member_id is absent or the empty string is
\* matched through its names only: find_match returns the first local whose
\* first and last name equal the member's, or none.
C16_EmptyIdentifierUsesNamesOnly ==
    (/\ probe.called
     /\ (probe.portal.member_id = NoneV \/ probe.portal.member_id = Some(<<>>)))
    => probe.result = IF NameHits = {} THEN NoneV
                      ELSE Some(probe.locals[Min(NameHits)])

----------------------------------------------------------------------------
(* C17 *)

\* C17 as stated: a run that meets no store error returns Ok, and a portal
\* member without identifier and with empty first and last names matches
\* none of the loaded locals and is in new_in_portal, whatever the locals are.
C17_BlankMemberIsNew ==
    Ran =>
        /\ lastRun.fail_at = 0 => RanOk
        /\ RanOk =>
              \A k \in 1..Len(lastRun.portal_members) :
                  lastRun.portal_members[k] = BlankMember
                  => /\ find_match(lastRun.local, BlankMember) = NoneV
                     /\ BlankMember \in Range(Result.new_in_portal)

----------------------------------------------------------------------------
(* C18 *)

\* The enrollments that were eligible for the carrier of the last run when
\* the run started.
LocalsBefore == LocalIds(clients, lastRun.before, lastRun.carrier_id)

\* C18: an Ok run for a carrier without local enrollments returns matched 0,
\* no disenrollment and the input list as new_in_portal, writes no
\* enrollment row and appends exactly one log row, which carries the length
\* of the input list as portal_count and new_found and 0 as matched and
\* disenrolled (all zero for the empty list).
C18_NoLocalsAllNew ==
    (RanOk /\ LocalsBefore = {}) =>
        /\ Result.matched = 0
        /\ Result.disenrolled = <<>>
        /\ Result.new_in_portal = lastRun.portal_members
        /\ enrollments = lastRun.before
        /\ Len(sync_logs) = Len(lastRun.logs_before) + 1
        /\ LET row == sync_logs[Len(sync_logs)]
           IN  /\ row.portal_count = Len(lastRun.portal_members)
               /\ row.matched = 0
               /\ row.disenrolled = 0
               /\ row.new_found = Len(lastRun.portal_members)
               /\ lastRun.portal_members = <<>> =>
                     row.portal_count + row.matched + row.disenrolled + row.new_found = 0

\* An Ok run for humana, which has no local enrollment while uhc has two
\* whose clients the two portal members name: both members are new.
C18_Witness ==
    /\ RanOk
    /\ lastRun.carrier_id = "carrier-humana"
    /\ LocalsBefore = {}
    /\ Cardinality(LocalIds(clients, lastRun.before, "carrier-uhc")) = 2
    /\ Len(lastRun.portal_members) = 2
    /\ \A k \in 1..2 : \E e \in EnrollmentIds :
          SameName(LocalEnrollment(clients, lastRun.before, e), lastRun.portal_members[k])
    /\ Result.new_in_portal = lastRun.portal_members

----------------------------------------------------------------------------
(* C19 *)

\* C19: an Ok run with an empty portal list returns matched 0 and no new
\* member, and disenrolls every local enrollment of the carrier: each is
\* DISENROLLED afterwards and the disenrolled list holds exactly one record
\* per local enrollment, with its enrollment id, its client id, its plan
\* name and the client's first name, a space and the last name.
C19_EmptyRosterDisenrollsAll ==
    (RanOk /\ lastRun.portal_members = <<>>) =>
        /\ Result.matched = 0
        /\ Result.new_in_portal = <<>>
        /\ Len(Result.disenrolled) = Cardinality(LocalsBefore)
        /\ \A e \in LocalsBefore :
              /\ enrollments[e].status_code = "DISENROLLED"
              /\ \E i \in 1..Len(Result.disenrolled) :
                    Result.disenrolled[i] =
                        [enrollment_id |-> e,
                         client_id |-> lastRun.before[e].client_id,
                         plan_name |-> lastRun.before[e].plan_name,
                         client_name |->
                             clients[lastRun.before[e].client_id].first_name
                                 \o <<" ">>
                                 \o clients[lastRun.before[e].client_id].last_name]

\* An Ok run with an empty portal list over two local enrollments of two
\* clients with different first names, one with a plan name and one without.
C19_Witness ==
    /\ RanOk
    /\ lastRun.portal_members = <<>>
    /\ Len(Result.disenrolled) = 2
    /\ \E i \in 1..2, j \in 1..2 :
          /\ Result.disenrolled[i].client_name = <<"j", " ", "d">>
          /\ Result.disenrolled[i].plan_name = Some("hmo")
          /\ Result.disenrolled[j].client_name = <<"k", " ", "d">>
          /\ Result.disenrolled[j].plan_name = NoneV

----------------------------------------------------------------------------
(* C20 *)

\* C20: the sync log is append-only: whatever the callers run (syncs for any
\* carriers, get_sync_logs, updates, logins and logouts), every step leaves
\* the rows the log already holds in place and unchanged; a step adds at
\* most one row, and only the log_sync of a sync adds one.
C20_LogAppendOnly ==
    [][/\ Len(sync_logs') >= Len(sync_logs)
       /\ SubSeq(sync_logs', 1, Len(sync_logs)) = sync_logs
       /\ sync_logs' # sync_logs =>
             /\ Len(sync_logs') = Len(sync_logs) + 1
             /\ \E c \in Callers : calls[c].pc = "log_sync" /\ calls'[c] = Idle(Ok)]_vars

\* The log holds the rows of two syncs, the second for the same carrier as
\* the first, while a caller is inside get_sync_logs.
C20_Witness ==
    /\ Len(sync_logs) = 2
    /\ sync_logs[1].carrier_id = sync_logs[2].carrier_id
    /\ sync_logs[1] # [sync_logs[2] EXCEPT !.id = 1]
    /\ \E c \in Callers : calls[c].pc = "get_sync_logs"

----------------------------------------------------------------------------
(* The enrollment commands *)

\* The plan type codes of each category, as get_codes_for_category lists them.
AdvantageCodes ==
    {"MA", "MAPD", "DSNP", "CSNP", "ISNP", "MMP", "PACE", "MSA", "PFFS", "COST"}
SupplementCodes ==
    {"MedSupA", "MedSupB", "MedSupC", "MedSupD", "MedSupF", "MedSupG",
     "MedSupK", "MedSupL", "MedSupM", "MedSupN"}

\* The plan type codes the commands are called with.
PlanTypeCodes == {"MA", "MAPD", "PDP"}

get_plan_category(plan_type_code) ==
    CASE plan_type_code \in AdvantageCodes -> "ADVANTAGE"
      [] plan_type_code = "PDP" -> "PRESCRIPTION"
      [] plan_type_code \in SupplementCodes -> "SUPPLEMENT"
      [] OTHER -> "OTHER"

get_codes_for_category(category) ==
    CASE category = "ADVANTAGE" -> AdvantageCodes
      [] category = "PRESCRIPTION" -> {"PDP"}
      [] category = "SUPPLEMENT" -> SupplementCodes
      [] OTHER -> {}

\* SELECT COUNT(*) ... > 0 over the client's active or pending rows of the
\* category, the excluded row left out.
has_active_enrollment_in_category(enr, client_id, plan_type_code, exclude_id) ==
    LET category_codes == get_codes_for_category(get_plan_category(plan_type_code))
    IN  IF category_codes = {} THEN FALSE
        ELSE \E id \in DOMAIN enr :
                /\ enr[id].client_id = client_id
                /\ enr[id].status_code \in {"ACTIVE", "PENDING"}
                /\ IsSome(enr[id].plan_type_code)
                /\ Unwrap(enr[id].plan_type_code) \in category_codes
                /\ enr[id].is_active = 1
                /\ (IsSome(exclude_id) => id # Unwrap(exclude_id))

\* CreateEnrollmentInput: the client, a uhc plan of any of the plan types or
\* of none, entered as active or as pending.
CreateEnrollmentInputs ==
    [client_id : ClientIds,
     carrier_id : {Some("carrier-uhc")},
     plan_type_code : {NoneV} \cup {Some(code) : code \in PlanTypeCodes},
     status_code : {Some("ACTIVE"), Some("PENDING")}]

\* UpdateEnrollmentInput as the enrollment form sends it.
EnrollmentFormInputs ==
    [status_code : {NoneV, Some("ACTIVE"), Some("CANCELLED")},
     plan_type_code : {NoneV, Some("PDP")},
     is_active : {NoneV, Some(1)}]

\* enrollment_repo::create_enrollment: the table after the INSERT.  The
\* statement sets no is_active: the column takes its default, 1, the value
\* has_active_enrollment_in_category and get_local_enrollments select on.
create_enrollment(enr, id, input, t) ==
    enr @@ (id :> [client_id |-> input.client_id,
                   carrier_id |-> Unwrap(input.carrier_id),
                   status_code |-> Unwrap(input.status_code),
                   is_active |-> 1,
                   disenrollment_reason |-> NoneV,
                   termination_date |-> NoneV,
                   updated_at |-> datetime(t),
                   plan_name |-> NoneV,
                   plan_type_code |-> input.plan_type_code])

\* The store before any enrollment was entered: two clients, no enrollment.
InitEnroll ==
    /\ probe = NoProbe
    /\ db_state = LoggedIn
    /\ calls = <<>>
    /\ clients = [c \in ClientIds |->
                    IF c = "c1"
                    THEN [first_name |-> <<"j">>, last_name |-> <<"d">>,
                          mbi |-> Some(<<"a">>), is_active |-> 1]
                    ELSE [first_name |-> <<"k">>, last_name |-> <<"d">>,
                          mbi |-> NoneV, is_active |-> 1]]
    /\ enrollments = <<>>
    /\ scan = <<>>
    /\ sync_logs = <<>>
    /\ now = 1
    /\ runs = 0
    /\ lastRun = NoRun
    /\ app = NoApp
    /\ db_file = Migrated

\* enrollment_service::create_enrollment; id is the fresh Uuid::new_v4.
CreateEnrollment ==
    \E input \in CreateEnrollmentInputs, id \in EnrollmentIds :
        /\ id \notin DOMAIN enrollments
        /\ IF /\ IsSome(input.plan_type_code)
              /\ has_active_enrollment_in_category(enrollments, input.client_id,
                                                   Unwrap(input.plan_type_code), NoneV)
           THEN UNCHANGED <<enrollments, scan>>
           ELSE /\ enrollments' = create_enrollment(enrollments, id, input, now)
                /\ scan' = Append(scan, id)
        /\ UNCHANGED <<clients, sync_logs, now, runs, lastRun, probe, db_state, calls, app,
                   db_file>>

\* enrollment_service::update_enrollment of an enrollment that exists.
EditEnrollment ==
    \E id \in DOMAIN enrollments, input \in EnrollmentFormInputs :
        /\ enrollments' = update_enrollment(enrollments, id, input)
        /\ UNCHANGED <<clients, scan, sync_logs, now, runs, lastRun, probe, db_state, calls, app,
                   db_file>>

\* run_sync for uhc with an empty roster or a roster of one member, in the
\* half-day the enrollments were entered in.
SyncEnrollments ==
    /\ Len(sync_logs) < MaxLogs
    /\ \E portal_members \in {<<>>, <<[first_name |-> <<"J">>, last_name |-> <<"d">>,
                                      member_id |-> Some(<<"A">>)]>>} :
         \E fail_at \in 0..StoreOps(clients, enrollments, "carrier-uhc", portal_members, scan) :
            LET out == run_sync(clients, enrollments, sync_logs, "carrier-uhc",
                                carrier_name("carrier-uhc"), portal_members, scan,
                                fail_at, now)
            IN  /\ enrollments' = out.enrollments
                /\ sync_logs' = out.sync_logs
    /\ UNCHANGED <<clients, scan, now, runs, lastRun, probe, db_state, calls, app, db_file>>

NextEnroll == CreateEnrollment \/ EditEnrollment \/ SyncEnrollments

SpecEnroll == InitEnroll /\ [][NextEnroll]_vars

\* The enrollments that count for the rule of one per category.
CountsInCategory(id, category) ==
    /\ enrollments[id].status_code \in {"ACTIVE", "PENDING"}
    /\ enrollments[id].is_active = 1
    /\ IsSome(enrollments[id].plan_type_code)
    /\ get_plan_category(Unwrap(enrollments[id].plan_type_code)) = category

\* C21: no client has two enrollments that are active or pending, with the
\* active flag set, in the same plan category (ADVANTAGE, PRESCRIPTION,
\* SUPPLEMENT).
C21_OneActivePerCategory ==
    \A id1, id2 \in DOMAIN enrollments :
        \A category \in {"ADVANTAGE", "PRESCRIPTION", "SUPPLEMENT"} :
            (/\ id1 # id2
             /\ enrollments[id1].client_id = enrollments[id2].client_id
             /\ CountsInCategory(id1, category)
             /\ CountsInCategory(id2, category)) => FALSE

----------------------------------------------------------------------------
(* C22 *)

\* The rosters that hold the members of the last run's roster, in any order
\* and any number of times.
SameMembers == {q \in PortalLists : Range(q) = Range(lastRun.portal_members)}

\* run_sync on the store the last run found, with roster q and the rows
\* returned in the order walk.
Rerun(q, walk) ==
    run_sync(clients, lastRun.before, lastRun.logs_before, lastRun.carrier_id,
             carrier_name(lastRun.carrier_id), q, walk, 0, lastRun.at)

DisenrolledBy(out) ==
    {Unwrap(out.ret).disenrolled[i].enrollment_id :
        i \in 1..Len(Unwrap(out.ret).disenrolled)}

\* C22: what an Ok run disenrolls depends only on the set of portal members:
\* the run with the roster permuted, or with a member repeated, disenrolls the
\* same enrollments, leaves the same enrollment table and reports the same set
\* of members in new_in_portal.
C22_RosterIsASet ==
    RanOk =>
        \A q \in SameMembers :
            LET out == Rerun(q, scan)
            IN  /\ DisenrolledBy(out) = DisenrolledIds
                /\ out.enrollments = enrollments
                /\ Range(Unwrap(out.ret).new_in_portal) = Range(Result.new_in_portal)

\* A run of a roster of two different members, one matched and one new, that
\* disenrolled an enrollment; the roster has a permutation.
C22_Witness ==
    /\ RanOk
    /\ runs = 1
    /\ Len(lastRun.portal_members) = 2
    /\ \E q \in SameMembers : q # lastRun.portal_members /\ Len(q) = 2
    /\ DisenrolledIds # {}
    /\ Result.matched = 1
    /\ Len(Result.new_in_portal) = 1

----------------------------------------------------------------------------
(* C23 *)

\* Two uhc enrollments of two clients whose names and MBIs are equal, differ
\* in letter case only, or differ; SQLite walks the rows in either order.
InitOrder ==
    /\ probe = NoProbe
    /\ db_state = LoggedIn
    /\ calls = <<>>
    /\ clients \in
          {[c \in ClientIds |-> IF c = "c1" THEN r1 ELSE r2] :
              r1 \in [first_name : {<<"j">>}, last_name : LocalLastNames,
                      mbi : LocalMbis, is_active : {1}],
              r2 \in [first_name : {<<"j">>, <<"J">>, <<"k">>},
                      last_name : LocalLastNames,
                      mbi : {NoneV, Some(<<"a">>), Some(<<"A">>)},
                      is_active : {1}]}
    /\ enrollments =
          [e \in EnrollmentIds |->
              InitRow(IF e = "e1" THEN "c1" ELSE "c2", "carrier-uhc", "ACTIVE", 1, NoneV)]
    /\ sync_logs = <<>>
    /\ now = 1
    /\ scan \in Orders(EnrollmentIds)
    /\ runs = 0
    /\ lastRun = NoRun
    /\ app = NoApp
    /\ db_file = Migrated

SpecOrder == InitOrder /\ [][Next]_vars

\* Two loaded locals carry the same MBI, letter case ignored.
ShareMbi(l1, l2) ==
    /\ IsSome(l1.client_mbi)
    /\ IsSome(l2.client_mbi)
    /\ eq_ignore_ascii_case(Unwrap(l1.client_mbi), Unwrap(l2.client_mbi))

\* No two locals of the last run share an MBI or a name pair; SameNames(l1, l2)
\* says when two name pairs are the same.
NoSharedKey(SameNames(_, _)) ==
    \A i, j \in 1..Len(lastRun.local) :
        i # j => /\ ~ShareMbi(lastRun.local[i], lastRun.local[j])
                 /\ ~SameNames(lastRun.local[i], lastRun.local[j])

ExactNames(l1, l2) ==
    /\ l1.client_first_name = l2.client_first_name
    /\ l1.client_last_name = l2.client_last_name

NamesIgnoringCase(l1, l2) ==
    /\ eq_ignore_ascii_case(l1.client_first_name, l2.client_first_name)
    /\ eq_ignore_ascii_case(l1.client_last_name, l2.client_last_name)

\* The run of the last call had the store returned the rows in any other
\* order: same matched, same disenrolled, same new members, same table.
SameOutcomeInAnyOrder ==
    \A walk \in Orders(EnrollmentIds) :
        LET out == Rerun(lastRun.portal_members, walk)
        IN  /\ Range(out.matched_enrollment_ids) = Seen
            /\ DisenrolledBy(out) = DisenrolledIds
            /\ Unwrap(out.ret).new_in_portal = Result.new_in_portal
            /\ out.enrollments = enrollments

\* C23 as stated: when no two locals of the carrier share an MBI (letter case
\* ignored) or a (first name, last name) pair, the outcome of an Ok run does
\* not depend on the order in which the store returns the locals.
C23_OrderIndependent ==
    (RanOk /\ runs = 1 /\ NoSharedKey(ExactNames)) => SameOutcomeInAnyOrder

\* C23, amended: when no two locals of the carrier share an MBI or a (first
\* name, last name) pair, letter case ignored for both, the outcome of an Ok
\* run (matched, disenrolled, new_in_portal) does not depend on the order in
\* which the store returns the locals.
C23_OrderIndependentIgnoringCase ==
    (RanOk /\ runs = 1 /\ NoSharedKey(NamesIgnoringCase)) => SameOutcomeInAnyOrder

\* A run over two locals with different keys that matched one by name,
\* disenrolled the other and found a new member.
C23_Witness ==
    /\ RanOk
    /\ runs = 1
    /\ Len(lastRun.local) = 2
    /\ NoSharedKey(NamesIgnoringCase)
    /\ Cardinality(Seen) = 1
    /\ Cardinality(DisenrolledIds) = 1
    /\ Len(Result.new_in_portal) = 1

----------------------------------------------------------------------------
(* C24 *)

\* The step is the second of two runs of the same sync, and both return Ok.
SecondOkRun ==
    /\ runs = 1
    /\ runs' = 2
    /\ IsSome(lastRun.ret)
    /\ IsSome(lastRun'.ret)

\* C24: the second of two Ok runs of the same sync in a row returns the
\* matched count and the new_in_portal list of the first, and its local_count
\* is the local_count of the first less the number of enrollments the first
\* disenrolled.
C24_SecondRunCounts ==
    [][SecondOkRun =>
          LET first == Unwrap(lastRun.ret)
              second == Unwrap(lastRun'.ret)
          IN  /\ second.matched = first.matched
              /\ second.new_in_portal = first.new_in_portal
              /\ second.local_count = first.local_count - Len(first.disenrolled)]_vars

\* Two Ok runs in a row; the first matched a local, disenrolled another and
\* found a new member, so the second loaded one local fewer.
C24_Witness ==
    /\ runs = 2
    /\ RanOk
    /\ Len(sync_logs) = 2
    /\ sync_logs[1].disenrolled = 1
    /\ sync_logs[1].matched = 1
    /\ sync_logs[1].new_found = 1
    /\ Result.local_count = 1
    /\ Result.matched = 1

----------------------------------------------------------------------------
(* C25 *)

NoPortal == Err("No portal integration for carrier")
ParseFailed == Err("Failed to parse member data")

\* The carrier ids that have a portal integration.
PortalCarriers ==
    {"carrier-devoted", "carrier-caresource", "carrier-medmutual", "carrier-uhc",
     "carrier-humana"}

\* C25: a process_portal_members call for a carrier without portal
\* integration, or with member data that does not parse, returns its error
\* before the store is touched: only calls for a carrier with a portal and
\* with a parsed roster get as far as with_conn, and the step that returns
\* either error is the first of the call, holds no guard, changes no client
\* and no enrollment and appends no log row.
C25_BadInputNeverReachesStore ==
    /\ [](\A c \in Callers :
             calls[c].cmd = "process_portal_members"
                => /\ calls[c].args.carrier_id \in PortalCarriers
                   /\ calls[c].args.portal_members \in Seq(PortalMembers))
    /\ [][\A c \in Callers :
             (Stepped(c) /\ calls'[c].ret \in {NoPortal, ParseFailed})
                => /\ calls[c].pc = "idle"
                   /\ calls'[c].pc = "idle"
                   /\ db_state.guard # Some(c)
                   /\ UNCHANGED <<clients, enrollments, sync_logs, db_state>>]_vars

\* In an open session with two active enrollments, one caller was refused for
\* a carrier without portal and the other for member data that does not
\* parse; no row was logged.
C25_Witness ==
    /\ db_state.conn # NoneV
    /\ \E c \in Callers, u \in Callers :
          /\ calls[c].ret = NoPortal
          /\ calls[u].ret = ParseFailed
    /\ sync_logs = <<>>
    /\ \A e \in DOMAIN enrollments : enrollments[e].status_code = "ACTIVE"
    /\ DOMAIN enrollments # {}

----------------------------------------------------------------------------
(* The carrier-login webview *)

\* Longest query string of a navigation, in key=value pairs.
MaxQuery == 2

SyncHost == "sheeps-sync.localhost"

\* The URLs the webview is asked to navigate to: the callback host, a portal
\* host, a host that only contains the callback host's name, and a URL
\* without host (host_str() is None); callback paths and others; query
\* strings of up to MaxQuery pairs, which may repeat a key.
NavHosts == {NoneV, Some(SyncHost), Some("member.uhc.com"), Some("www.sheeps-sync.localhost")}
NavPaths == {"/data", "/error", "/", "/data/x"}
QueryPairs ==
    {[key |-> "members", value |-> "[]"], [key |-> "members", value |-> "[{}]"],
     [key |-> "message", value |-> "oops"], [key |-> "id", value |-> "7"]}
NavUrls == [host : NavHosts, path : NavPaths, query : SeqsUpTo(QueryPairs, MaxQuery)]

\* nav_url.query_pairs().find(|(k, _)| k == key): the first pair with the key.
query_pairs_find(query, key) ==
    LET hits == {i \in 1..Len(query) : query[i].key = key}
    IN  IF hits = {} THEN NoneV ELSE Some(query[Min(hits)])

\* A handler that looks at the path only.
on_navigation_any_host(nav_url) ==
    [allow |-> nav_url.path \notin {"/data", "/error"},
     emitted |-> IF nav_url.path = "/data" /\ IsSome(query_pairs_find(nav_url.query, "members"))
                 THEN <<[event |-> "carrier-sync-data",
                         payload |-> Unwrap(query_pairs_find(nav_url.query, "members")).value]>>
                 ELSE <<>>]

\* The on_navigation closure of the carrier-login window: whether the
\* navigation goes ahead, and the events emitted to the application.
on_navigation(nav_url) ==
    LET host == IF IsSome(nav_url.host) THEN Unwrap(nav_url.host) ELSE ""
        members_val == query_pairs_find(nav_url.query, "members")
        err_val == query_pairs_find(nav_url.query, "message")
    IN  IF host = SyncHost
        THEN [allow |-> FALSE,
              emitted |->
                 IF nav_url.path = "/data"
                 THEN IF IsSome(members_val)
                      THEN <<[event |-> "carrier-sync-data",
                              payload |-> Unwrap(members_val).value]>>
                      ELSE <<>>
                 ELSE IF nav_url.path = "/error"
                 THEN IF IsSome(err_val)
                      THEN <<[event |-> "carrier-sync-error",
                              payload |-> Unwrap(err_val).value]>>
                      ELSE <<>>
                 ELSE <<>>]
        ELSE [allow |-> TRUE, emitted |-> <<>>]

\* CarrierPortal::fetch_script of the portal of a carrier.
fetch_script(carrier_id) == [script |-> "fetch_script", portal |-> Unwrap(get_portal(carrier_id))]

\* A lookup that falls back to the main window.
get_webview_window_or_main(windows, label) ==
    IF label \in DOMAIN windows THEN Some(windows[label]) ELSE Some(windows["main"])

\* app.get_webview_window(label)
get_webview_window(windows, label) ==
    IF label \in DOMAIN windows THEN Some(windows[label]) ELSE NoneV

\* What the last webview command or handler call was and what came of it.
Last(cmd, carrier_id, url, ret, evaluated, allowed, emitted) ==
    [cmd |-> cmd, carrier_id |-> carrier_id, url |-> url, ret |-> ret,
     evaluated |-> evaluated, allowed |-> allowed, emitted |-> emitted]

InitWebview ==
    /\ probe = NoProbe
    /\ db_state = LoggedIn
    /\ calls = <<>>
    /\ clients = <<>>
    /\ enrollments = <<>>
    /\ sync_logs = <<>>
    /\ now = 1
    /\ scan = <<>>
    /\ runs = 0
    /\ lastRun = NoRun
    /\ app = NoApp
    /\ db_file = Migrated

\* open_carrier_login.  Closing the window that is open, and building the new
\* one, can each fail.
OpenCarrierLogin ==
    /\ \E carrier_id \in AppCarrierIds, close_ok \in BOOLEAN, build_ok \in BOOLEAN :
          LET done(ret) == Last("open_carrier_login", Some(carrier_id), NoneV, ret,
                                NoneV, NoneV, <<>>)
              main == [label \in {"main"} |-> app.windows[label]]
          IN  IF get_portal(carrier_id) = NoneV
              THEN app' = [app EXCEPT !.last = done(NoPortal)]
              ELSE IF IsSome(get_webview_window(app.windows, "carrier-login")) /\ ~close_ok
              THEN app' = [app EXCEPT !.last = done(Err("close failed"))]
              ELSE IF ~build_ok
              THEN app' = [windows |-> main, last |-> done(Err("build failed"))]
              ELSE app' = [windows |-> main @@ ("carrier-login" :>
                                          [url |-> "login_url", carrier_id |-> Some(carrier_id)]),
                           last |-> done(Ok)]
    /\ UNCHANGED <<clients, enrollments, sync_logs, now, scan, runs, lastRun, probe,
                   db_state, calls, db_file>>

\* trigger_carrier_fetch.  eval can fail.
TriggerCarrierFetch ==
    /\ \E carrier_id \in AppCarrierIds, eval_ok \in BOOLEAN :
          LET done(ret, evaluated) ==
                  Last("trigger_carrier_fetch", Some(carrier_id), NoneV, ret,
                       evaluated, NoneV, <<>>)
          IN  app' = [app EXCEPT !.last =
                 IF get_portal(carrier_id) = NoneV
                 THEN done(NoPortal, NoneV)
                 ELSE IF get_webview_window(app.windows, "carrier-login") = NoneV
                 THEN done(Err("Carrier login window is not open. Open the portal and log in first."),
                           NoneV)
                 ELSE IF ~eval_ok
                 THEN done(Err("eval failed"), NoneV)
                 ELSE done(Ok, Some(fetch_script(carrier_id)))]
    /\ UNCHANGED <<clients, enrollments, sync_logs, now, scan, runs, lastRun, probe,
                   db_state, calls, db_file>>

\* The page in the carrier-login window asks to navigate: the handler runs.
Navigate ==
    /\ "carrier-login" \in DOMAIN app.windows
    /\ \E nav_url \in NavUrls :
          LET r == on_navigation(nav_url)
          IN  app' = [app EXCEPT !.last =
                 Last("on_navigation", NoneV, Some(nav_url), NoneV, NoneV,
                      Some(r.allow), r.emitted)]
    /\ UNCHANGED <<clients, enrollments, sync_logs, now, scan, runs, lastRun, probe,
                   db_state, calls, db_file>>

\* The user closes the carrier-login window.
CloseWindow ==
    /\ "carrier-login" \in DOMAIN app.windows
    /\ app' = [windows |-> [label \in {"main"} |-> app.windows[label]],
               last |-> Last("close", NoneV, NoneV, NoneV, NoneV, NoneV, <<>>)]
    /\ UNCHANGED <<clients, enrollments, sync_logs, now, scan, runs, lastRun, probe,
                   db_state, calls, db_file>>

NextWebview == OpenCarrierLogin \/ TriggerCarrierFetch \/ Navigate \/ CloseWindow

SpecWebview == InitWebview /\ [][NextWebview]_vars

----------------------------------------------------------------------------
(* C26 *)

Navigated == app.last.cmd = "on_navigation"
NavUrl == Unwrap(app.last.url)
Blocked == app.last.allowed = Some(FALSE)
Emits(event) == \E i \in 1..Len(app.last.emitted) : app.last.emitted[i].event = event
HasParam(key) == \E i \in 1..Len(NavUrl.query) : NavUrl.query[i].key = key

\* C26: the handler blocks a navigation exactly when its host is
\* sheeps-sync.localhost, whatever the path and the query; it emits
\* carrier-sync-data only for a blocked navigation to /data with a members
\* parameter, carrier-sync-error only for a blocked navigation to /error with a
\* message parameter, never both and nothing else.
C26_CallbackHostBlocked ==
    Navigated =>
        /\ Blocked <=> NavUrl.host = Some(SyncHost)
        /\ Emits("carrier-sync-data")
              => (Blocked /\ NavUrl.path = "/data" /\ HasParam("members"))
        /\ Emits("carrier-sync-error")
              => (Blocked /\ NavUrl.path = "/error" /\ HasParam("message"))
        /\ ~(Emits("carrier-sync-data") /\ Emits("carrier-sync-error"))
        /\ \A i \in 1..Len(app.last.emitted) :
              app.last.emitted[i].event \in {"carrier-sync-data", "carrier-sync-error"}

\* A blocked navigation to /data whose query carries a message and then the
\* members: the handler emitted carrier-sync-data and no error.
C26_Witness ==
    /\ Navigated
    /\ Blocked
    /\ NavUrl.path = "/data"
    /\ Len(NavUrl.query) = 2
    /\ NavUrl.query[1].key = "message"
    /\ NavUrl.query[2].key = "members"
    /\ app.last.emitted = <<[event |-> "carrier-sync-data", payload |-> NavUrl.query[2].value]>>

----------------------------------------------------------------------------
(* C27 *)

LoginWindowOpen == "carrier-login" \in DOMAIN app.windows

\* The step is a trigger_carrier_fetch call that returns.
FetchReturns ==
    /\ app'.last.cmd = "trigger_carrier_fetch"
    /\ app'.last # app.last

\* C27: trigger_carrier_fetch evaluates the fetch script only while the
\* carrier-login window is open, and that window is always one that an
\* open_carrier_login call built for a carrier with a portal; a call made
\* while the window is not open, or for a carrier without portal integration,
\* returns an error and evaluates no script; a call that returns Ok has
\* evaluated the fetch script of its carrier's portal.
C27_FetchNeedsLoginWindow ==
    /\ [](LoginWindowOpen =>
             /\ IsSome(app.windows["carrier-login"].carrier_id)
             /\ Unwrap(app.windows["carrier-login"].carrier_id) \in PortalCarriers)
    /\ [][FetchReturns =>
             LET carrier_id == Unwrap(app'.last.carrier_id)
             IN  /\ IsSome(app'.last.evaluated)
                    => /\ LoginWindowOpen
                       /\ carrier_id \in PortalCarriers
                       /\ app'.last.evaluated = Some(fetch_script(carrier_id))
                 /\ (~LoginWindowOpen \/ carrier_id \notin PortalCarriers)
                    => /\ IsSome(app'.last.ret)
                       /\ ~Unwrap(app'.last.ret).ok
                       /\ app'.last.evaluated = NoneV
                 /\ app'.last.ret = Ok => IsSome(app'.last.evaluated)
                 /\ app'.windows = app.windows]_vars

\* The humana script was evaluated in the window opened for uhc.
C27_Witness ==
    /\ app.last.cmd = "trigger_carrier_fetch"
    /\ app.last.ret = Ok
    /\ app.last.evaluated = Some(fetch_script("carrier-humana"))
    /\ LoginWindowOpen
    /\ app.windows["carrier-login"].carrier_id = Some("carrier-uhc")

----------------------------------------------------------------------------
(* C28 *)

\* The rows of seed_enrollment_statuses: code and is_terminal.
enrollment_statuses ==
    ("ACTIVE" :> 0) @@ ("PENDING" :> 0) @@ ("REINSTATED" :> 0) @@ ("REJECTED" :> 1)
    @@ ("CANCELLED" :> 1) @@ ("DISENROLLED_VOLUNTARY" :> 1)
    @@ ("DISENROLLED_INVOLUNTARY" :> 1) @@ ("DISENROLLED_DECEASED" :> 1)
    @@ ("DISENROLLED_PLAN_TERM" :> 1) @@ ("DISENROLLED_OTHER_COV" :> 1)

\* The enrollments the last run wrote.
WrittenByLastRun == {e \in DOMAIN enrollments : enrollments[e] # lastRun.before[e]}

\* C28: every status code a run writes to an enrollment is a code that
\* seed_enrollment_statuses registers, and it is registered as terminal.
C28_WrittenStatusIsSeededTerminal ==
    Ran =>
        \A e \in WrittenByLastRun :
            /\ enrollments[e].status_code \in DOMAIN enrollment_statuses
            /\ enrollment_statuses[enrollments[e].status_code] = 1

----------------------------------------------------------------------------
(* Account creation and login on their own: any database file, any failure *)

AuthCaller == "ui1"

\* A command of the auth module that has returned.
AuthCall(cmd, fail, out) ==
    [cmd |-> cmd, pc |-> "idle", args |-> [fail |-> fail],
     frame |-> [migrated |-> out.migrated, migrations_ok |-> out.migrations_ok,
                ran |-> out.ran],
     ret |-> IF out.ok THEN Ok ELSE Err(out.err)]

NoAuthCall ==
    AuthCall("", NoFailure, AuthResult(FALSE, NoneV, TRUE, "", NoneV))

\* The database file of an account whose last release applied the first
\* user_version migrations (one more than this release knows: a later release).
DbFileAt(user_version) ==
    Some([user_version |-> user_version, applied |-> 1..user_version,
          partial |-> NoneV, seeded |-> TRUE])

\* No account yet, or the account of this or another release, logged out.
InitAuth ==
    /\ probe = NoProbe
    /\ runs = 0
    /\ lastRun = NoRun
    /\ app = NoApp
    /\ now = 1
    /\ clients = <<>>
    /\ enrollments = <<>>
    /\ scan = <<>>
    /\ sync_logs = <<>>
    /\ calls = [c \in {AuthCaller} |-> NoAuthCall]
    /\ \/ /\ db_state = NoAccount
          /\ db_file = NoneV
       \/ /\ db_state = LoggedOut
          /\ \E user_version \in 0..(Len(MIGRATIONS) + 1) : db_file = DbFileAt(user_version)

\* create_account: create_database, then set_connection.
CreateAccount ==
    /\ \E fail \in AuthFailures :
          LET out == create_database(db_state.salt, db_file, fail)
          IN  /\ db_file' = out.db
              /\ db_state' = [db_state EXCEPT !.salt = out.salt,
                                              !.conn = IF out.ok THEN Some("sheeps.db") ELSE @]
              /\ calls' = [calls EXCEPT ![AuthCaller] = AuthCall("create_account", fail, out)]
    /\ UNCHANGED <<clients, enrollments, sync_logs, now, scan, runs, lastRun, probe, app>>

\* login: unlock_database, then set_connection.
Login ==
    /\ \E fail \in AuthFailures :
          LET out == unlock_database(db_state.salt, db_file, fail)
          IN  /\ db_file' = out.db
              /\ db_state' = [db_state EXCEPT !.conn = IF out.ok THEN Some("sheeps.db") ELSE @]
              /\ calls' = [calls EXCEPT ![AuthCaller] = AuthCall("login", fail, out)]
    /\ UNCHANGED <<clients, enrollments, sync_logs, now, scan, runs, lastRun, probe, app>>

\* logout: clear_connection.
Logout ==
    /\ db_state' = [db_state EXCEPT !.conn = NoneV]
    /\ calls' = [calls EXCEPT ![AuthCaller] =
                    AuthCall("logout", NoFailure,
                             AuthResult(db_state.salt, db_file, TRUE, "", NoneV))]
    /\ UNCHANGED <<clients, enrollments, sync_logs, now, scan, runs, lastRun, probe, app,
                   db_file>>

NextAuth == CreateAccount \/ Login \/ Logout

SpecAuth == InitAuth /\ [][NextAuth]_vars

----------------------------------------------------------------------------
(* C29 *)

\* The database the call of this step opened, and the call's record.
OpenedDb == IF IsSome(db_file) THEN Unwrap(db_file) ELSE NewDbFile
ThisCall == calls'[AuthCaller]
MigratingStep == ThisCall.frame.migrated /\ IsSome(db_file')

\* The migrations whose version is above the stored user_version, ascending.
Pending == SelectSeq(MIGRATIONS, LAMBDA v : v > OpenedDb.user_version)

\* The pending migrations below the one the call failed at.
Succeeded == SelectSeq(Pending, LAMBDA v : v < ThisCall.args.fail.version)

IsPrefix(s, t) == Len(s) <= Len(t) /\ s = SubSeq(t, 1, Len(s))

LastOr(s, default) == IF s = <<>> THEN default ELSE s[Len(s)]

\* C29: a call of run_migrations runs the batches of the migrations whose
\* version is above the stored user_version, in ascending order, and no other;
\* a call that succeeds ran them all and leaves the last one's version as
\* user_version; a call right after a successful call runs nothing; a call
\* that fails at a migration ran none after it and leaves as user_version
\* the version of the last migration before it (the stored one if none).
C29_PendingMigrationsInOrder ==
    [][MigratingStep =>
          LET new == Unwrap(db_file')
          IN  /\ IsPrefix(ThisCall.frame.ran, Pending)
              /\ new.applied = OpenedDb.applied \cup Range(ThisCall.frame.ran)
              /\ ThisCall.frame.migrations_ok
                    => /\ ThisCall.frame.ran = Pending
                       /\ new.user_version = LastOr(Pending, OpenedDb.user_version)
              /\ (ThisCall.frame.migrations_ok /\ calls[AuthCaller].frame.migrations_ok)
                    => /\ ThisCall.frame.ran = <<>>
                       /\ new.user_version = OpenedDb.user_version
              /\ (~ThisCall.frame.migrations_ok /\ ThisCall.args.fail.at # "read_version")
                    => /\ new.user_version = LastOr(Succeeded, OpenedDb.user_version)
                       /\ IsPrefix(Succeeded, ThisCall.frame.ran)
                       /\ Len(ThisCall.frame.ran) <= Len(Succeeded) + 1
              /\ (~ThisCall.frame.migrations_ok /\ ThisCall.args.fail.at = "read_version")
                    => new = OpenedDb]_vars

\* A login to a database at version 1 ran migration 2 and failed in the batch
\* of migration 3: user_version is 2 and migration 4 was not run.
C29_Witness ==
    /\ calls[AuthCaller].cmd = "login"
    /\ calls[AuthCaller].ret = Err("Failed to apply migration")
    /\ calls[AuthCaller].args.fail.version = 3
    /\ calls[AuthCaller].frame.ran = <<2>>
    /\ IsSome(db_file)
    /\ Unwrap(db_file).user_version = 2
    /\ Unwrap(db_file).applied = {1, 2}
    /\ Unwrap(db_file).partial = Some(3)

----------------------------------------------------------------------------
(* C30 *)

\* The step is a create_account call that returns an error.
CreateFails == ThisCall.cmd = "create_account" /\ ThisCall.ret # Ok

\* C30: a create_database call that returns an error leaves the first-run
\* state as it was, so that after a failed first run is_first_run is still
\* true; and a call made when it is not the first run fails and changes
\* neither the salt file nor the database file.
C30_FailedCreateKeepsFirstRun ==
    [][/\ CreateFails => is_first_run(db_state'.salt) = is_first_run(db_state.salt)
       /\ (ThisCall.cmd = "create_account" /\ ~is_first_run(db_state.salt))
             => /\ ThisCall.ret # Ok
                /\ db_state'.salt = db_state.salt
                /\ db_file' = db_file]_vars

============================================================================
